---- MODULE Spec2Model ----
(***************************************************************************)
(* Model of src/app.py: the Toyama tourism segment report (Streamlit).     *)
(*                                                                         *)
(* TLC strings are ASCII, so every Japanese label of the source is written *)
(* in ASCII here and the original is given in the comment beside it.       *)
(*                                                                         *)
(* Numbers.  Every float the program reports is a value rounded to one     *)
(* decimal; it is held as an integer number of tenths (33.3 is 333).       *)
(* A rational is a pair numerator/denominator until it is rounded.         *)
(*                                                                         *)
(* Python values.  dict, tuple, float, int and str are tagged records, so  *)
(* that a tuple of two empty dicts is not an empty dict and an int 0 is    *)
(* not a float 0.0.  A dict is its items in insertion order.               *)
(***************************************************************************)
EXTENDS Integers, Sequences, FiniteSets, TLC

VARIABLES
    cache,              \* st.cache_data memo of load_data(): NoTable or the table
    sheet,              \* what the sheet at the URL held at the last run
    compare_mode,       \* sidebar radio of the last run
    selected_region,    \* sidebar selectbox (region 1) of the last run
    selected_region2,   \* sidebar selectbox (region 2) of the last run, or None
    checkboxes,         \* the sections whose sidebar checkbox is checked
    generate_button,    \* the last run was started by the sidebar button
    selected_sections,  \* the section list the last run used (after truncation)
    sidebar_warning,    \* the last run showed the "more than 5" sidebar warning
    results,            \* the results dict of the last run
    screen,             \* the section blocks the last run put on the page
    pdf,                \* the document behind the download button of the last run
    main_df,            \* df, the table main holds, at the end of the last run
    outcome             \* how the last run ended

vars == <<cache, sheet, compare_mode, selected_region, selected_region2,
          checkboxes, generate_button, selected_sections, sidebar_warning, results, screen,
          pdf, main_df, outcome>>

-----------------------------------------------------------------------------
(* Bounds of the model *)

\* rows of a table in the specification of the report assembly (Spec)
MaxRows == 2
\* rows of a table in the specification of the region resolver (SpecRegion)
MaxRowsRegion == 2
\* rows of a table in the specifications of one aggregator
MaxRowsTravel == 4
MaxRowsNps == 4
MaxRowsSeafood == 5
MaxRowsRanking == 3
\* rows of a table in the specification of the basic attributes (SpecBasic)
MaxRowsBasic == 3

\* rows of a sheet whose rows differ in the number of visits
MaxRowsVisits == 3

\* rows of a sheet whose rows differ in the column that has no value
MaxRowsMissing == 2

\* rows of a sheet whose rows differ in the venue codes of the two dishes
MaxRowsSushi == 2

\* rows of a sheet whose rows differ in the amounts spent
MaxRowsExpense == 3

\* rows of a sheet whose columns and transport indicators differ
MaxRowsSchema == 2

\* rows of the sheet at the URL, which may differ from one run to the next
MaxRowsReload == 2

\* rows of a sheet with more columns of a family than a table has rows
MaxRowsTables == 2

-----------------------------------------------------------------------------
(* Python values *)

PyDict(items) == [py |-> "dict", items |-> items]
PyTuple(items) == [py |-> "tuple", items |-> items]
PyFloat(t) == [py |-> "float", tenths |-> t]
PyInt(n) == [py |-> "int", n |-> n]
PyStr(s) == [py |-> "str", s |-> s]

EmptyDict == PyDict(<<>>)

\* the outcome of a call that raises instead of returning a value
Raised(exc) == [py |-> "raise", exc |-> exc]

\* pd.to_numeric(errors='coerce') and Series.map() give NaN for what they cannot
\* convert; survey codes are never negative, so -1 stands for NaN.
NaN == -1

\* the float nan as a statistic: Series.mean() of a column with no value;
\* no statistic of the report is as low as this number of tenths
NanTenths == -999999

\* the value of .map(TARGET_REGIONS) for a code with no entry (NaN)
NoLabel == "NaN"

\* selected_region2 in single-region mode
None == "None"

\* the sheet before any run has asked for it
NoSheet == [columns |-> <<>>, rows |-> <<>>]

\* the cache before load_data() has run
NoTable == [columns |-> <<>>, rows |-> <<>>, loaded |-> FALSE]

\* list(d.keys())
Keys(d) == [i \in DOMAIN d.items |-> d.items[i][1]]

\* key in d
HasKey(d, k) == \E i \in DOMAIN d.items : d.items[i][1] = k

\* d[k] for a key the dict has
Lookup(d, k) == d.items[CHOOSE i \in DOMAIN d.items : d.items[i][1] = k][2]

\* d.get(k, default)
DictGet(d, k, default) == IF HasKey(d, k) THEN Lookup(d, k) ELSE default

\* d[k] = v: a new key is appended, an old key keeps its place
DictSet(d, k, v) ==
    IF HasKey(d, k)
    THEN PyDict([i \in DOMAIN d.items |->
                    IF d.items[i][1] = k THEN <<k, v>> ELSE d.items[i]])
    ELSE PyDict(Append(d.items, <<k, v>>))

\* x['key']: a dict gives the value; a tuple raises TypeError
CanSubscript(x, k) == x.py = "dict" /\ HasKey(x, k)

\* bool(d) of a dict: it has at least one item
Truthy(d) == Len(d.items) > 0

RECURSIVE SumSeq(_)
SumSeq(s) == IF s = <<>> THEN 0 ELSE Head(s) + SumSeq(Tail(s))

SelectRows(rows, Test(_)) == SelectSeq(rows, Test)

\* (mask).sum(): the number of rows the test holds for
Count(rows, Test(_)) == Len(SelectSeq(rows, Test))

-----------------------------------------------------------------------------
(* round(x, 1) *)

\* round(num/den, 1) in tenths for num >= 0, den > 0: the nearest tenth, a tie
\* going to the even tenth (Python and numpy both round half to even).
RoundHalfEvenNonNeg(num, den) ==
    LET x == 10 * num
        q == x \div den
        r == x % den
    IN  IF 2 * r < den THEN q
        ELSE IF 2 * r > den THEN q + 1
        ELSE IF q % 2 = 0 THEN q ELSE q + 1

Round1(num, den) ==
    IF num >= 0 THEN RoundHalfEvenNonNeg(num, den)
    ELSE 0 - RoundHalfEvenNonNeg(0 - num, den)

\* round(mask.mean() * 100, 1): count rows of n, as a percentage
Pct(count, n) == Round1(100 * count, n)

-----------------------------------------------------------------------------
(* Mapping tables, src/app.py 78-124 *)

\* 富山県 東京都 石川県 愛知県 大阪府 長野県 福井県
TARGET_REGIONS ==
    (1 :> "Toyama") @@ (2 :> "Tokyo") @@ (3 :> "Ishikawa") @@ (4 :> "Aichi")
    @@ (6 :> "Osaka") @@ (7 :> "Nagano") @@ (14 :> "Fukui")

REGION_ORDER ==
    <<"Toyama", "Tokyo", "Ishikawa", "Aichi", "Osaka", "Nagano", "Fukui">>

\* the display names are the ten checkbox labels, in the order of the dict:
\* 基本属性 旅行行動 交通手段 訪問目的 情報源 訪問先 消費額 満足度・NPS 海の幸 寿司・ます寿し
\* REPORT_SECTIONS maps each to its internal identifier.
SECTION_NAMES ==
    <<"Basic", "Travel", "Transport", "Purpose", "InfoSource", "Visited",
      "Expense", "SatisfactionNPS", "Seafood", "Sushi">>

REPORT_SECTIONS ==
    ("Basic" :> "basic") @@ ("Travel" :> "travel")
    @@ ("Transport" :> "transport") @@ ("Purpose" :> "purpose")
    @@ ("InfoSource" :> "info_source") @@ ("Visited" :> "visited")
    @@ ("Expense" :> "expense") @@ ("SatisfactionNPS" :> "satisfaction")
    @@ ("Seafood" :> "seafood") @@ ("Sushi" :> "sushi")

\* the checkboxes that start checked: 基本属性, 訪問目的, 満足度・NPS
DEFAULT_SECTIONS == {"Basic", "Purpose", "SatisfactionNPS"}

-----------------------------------------------------------------------------
(* load_data and the region resolver, src/app.py 63-75, 130-140 *)

\* pd.to_numeric(df['居住地'], errors='coerce') on one cell: the strings that
\* are numerals parse to their number, every other string to NaN.
to_numeric(s) ==
    CASE s = "1" -> 1 [] s = "2" -> 2 [] s = "3" -> 3 [] s = "4" -> 4
      [] s = "5" -> 5 [] s = "6" -> 6 [] s = "7" -> 7 [] s = "12" -> 12
      [] s = "14" -> 14
      [] OTHER -> NaN

\* a variant of fukui_mask that leaves alone every code with a table entry
fukui_mask_only_unmapped(area, code) ==
    area = 4 /\ ~(code \in {3, 12, 1}) /\ ~(code \in {1, 2, 3, 4, 6, 7, 14})

\* fukui_mask on one row: (df['居住エリア'] == 4) & (~df['居住地_code'].isin([3, 12, 1]))
fukui_mask(area, code) == area = 4 /\ ~(code \in {3, 12, 1})

\* a variant of resolve_code without line 71, the prefecture given by name
resolve_code_without_name(home, area) ==
    LET parsed == to_numeric(home)
    IN  IF fukui_mask(area, parsed) THEN 14 ELSE parsed

\* 居住地_code of one row after lines 69-73
resolve_code(home, area) ==
    LET parsed == to_numeric(home)
        named == IF home = "Fukui" THEN 14 ELSE parsed
    IN  IF fukui_mask(area, named) THEN 14 ELSE named

\* load_data(): read the CSV (raw), add 居住地_code to every row
load_data(raw) ==
    [columns |-> raw.columns,
     rows |-> [i \in DOMAIN raw.rows |->
                 raw.rows[i] @@ ("code" :> resolve_code(raw.rows[i].home,
                                                        raw.rows[i].area))],
     loaded |-> TRUE]

\* df['居住地_code'].map(TARGET_REGIONS) on one row
region_label(row) ==
    IF row.code \in DOMAIN TARGET_REGIONS THEN TARGET_REGIONS[row.code]
    ELSE NoLabel

\* the column 居住地名 that get_region_data and get_all_target_data add
REGION_NAME_COLUMN == <<"region_name", "">>

\* a table with the column 居住地名 set to the label of every row
labelled(df) ==
    [df EXCEPT
        !.columns = IF \E i \in DOMAIN @ : @[i] = REGION_NAME_COLUMN THEN @
                    ELSE Append(@, REGION_NAME_COLUMN),
        !.rows = [i \in DOMAIN @ |-> ("region_name" :> region_label(@[i])) @@ @[i]]]

\* a variant of df_with_region without the copy: the column is added to the
\* table of the caller
df_with_region_in_place(df) == [copy |-> labelled(df), df |-> labelled(df)]

\* lines 132-133 and 138-139: df_with_region = df.copy(), and the column
\* 居住地名 is set in the copy; df is the table the caller holds afterwards
df_with_region(df) == [copy |-> labelled(df), df |-> df]

\* get_region_data(df, region_name): the rows whose label is region_name
get_region_data(df, region_name) ==
    LET Test(row) == row.region_name = region_name
    IN  SelectSeq(df_with_region(df).copy.rows, Test)

\* a variant of get_all_target_data without the notna() filter
get_all_target_data_every_row(df) == df_with_region(df).copy.rows

\* get_all_target_data(df): the rows whose label is not NaN
get_all_target_data(df) ==
    LET Test(row) == row.region_name # NoLabel
    IN  SelectSeq(df_with_region(df).copy.rows, Test)

-----------------------------------------------------------------------------
(* Helpers over a row subset ("data": a sequence of rows) *)

\* Series.dropna(): the values of a column that are not NaN
dropna(values) ==
    LET Test(v) == v # NaN
    IN  SelectSeq(values, Test)

\* round(Series.mean(), 1) in tenths: the mean skips NaN, and is nan when the
\* column has no value at all (round(nan, 1) is nan)
mean1(values) ==
    IF dropna(values) = <<>> THEN NanTenths
    ELSE Round1(SumSeq(dropna(values)), Len(dropna(values)))

\* data[col].sum() for the column read by F
SumOver(data, F(_)) == SumSeq([i \in DOMAIN data |-> F(data[i])])

\* the values of a set in ascending order: sorted(...)
RECURSIVE Sorted(_)
Sorted(S) ==
    IF S = {} THEN <<>>
    ELSE LET m == CHOOSE x \in S : \A y \in S : x <= y
         IN  <<m>> \o Sorted(S \ {m})

\* Series.mode().iloc[0]: the most frequent non-NaN value, the smallest of them
\* on a tie; NaN (no value at all) when the series has no value.
Mode(values) ==
    LET present == {values[i] : i \in DOMAIN values} \ {NaN}
        freq(v) == Cardinality({i \in DOMAIN values : values[i] = v})
        best == {v \in present : \A w \in present : freq(w) <= freq(v)}
    IN  IF present = {} THEN NaN
        ELSE CHOOSE v \in best : \A w \in best : v <= w

\* a variant of prefix_cols that knows the transport columns by a fixed list
prefix_cols_fixed_list(df, prefix) ==
    LET known == {<<"transport1_", "car">>, <<"transport1_", "shinkansen">>,
                  <<"transport2_", "bus">>, <<"transport2_", "rental_car">>}
        Test(col) ==
            col[1] = prefix
            /\ (prefix \in {"transport1_", "transport2_"} => col \in known)
    IN  SelectSeq(df.columns, Test)

\* the columns of the table whose name starts with the prefix
\* [col for col in df.columns if col.startswith(prefix)]
prefix_cols(df, prefix) ==
    LET Test(col) == col[1] = prefix
    IN  SelectSeq(df.columns, Test)

\* {name: round(data[col].mean() * 100, 1)} over the columns, in their order
rate_items(data, cols) ==
    [i \in DOMAIN cols |->
        LET F(row) == row.ind[cols[i]]
        IN  <<cols[i][2], PyFloat(Pct(SumOver(data, F), Len(data)))>>]

\* a variant of insert_desc that puts an item in front of the items of equal
\* value, as an unstable sort may
insert_desc_before_ties(sorted, item) ==
    LET ahead == Cardinality({i \in DOMAIN sorted :
                                 sorted[i][2].tenths > item[2].tenths})
    IN  SubSeq(sorted, 1, ahead) \o <<item>> \o SubSeq(sorted, ahead + 1, Len(sorted))

\* sorted(results.items(), key=lambda x: x[1], reverse=True): a stable sort,
\* so items of equal value keep their order.  One item is put behind every
\* item whose value is at least its own.
insert_desc(sorted, item) ==
    LET ahead == Cardinality({i \in DOMAIN sorted :
                                 sorted[i][2].tenths >= item[2].tenths})
    IN  SubSeq(sorted, 1, ahead) \o <<item>> \o SubSeq(sorted, ahead + 1, Len(sorted))

RECURSIVE sort_desc_from(_, _)
sort_desc_from(sorted, items) ==
    IF items = <<>> THEN sorted
    ELSE sort_desc_from(insert_desc(sorted, Head(items)), Tail(items))

sorted_desc(items) == sort_desc_from(<<>>, items)

-----------------------------------------------------------------------------
(* calc_basic_stats, src/app.py 142-188 *)

\* 子連れ家族(未就学児) 子連れ家族(小〜高校生) 大人の家族 夫婦 カップル
\* 友人・知人 団体旅行 ひとり その他
COMPANION_MAP ==
    (1 :> "family_preschool") @@ (2 :> "family_school") @@ (3 :> "adult_family")
    @@ (4 :> "couple_married") @@ (5 :> "couple") @@ (6 :> "friends")
    @@ (7 :> "group_tour") @@ (8 :> "alone") @@ (0 :> "other")

\* 10代 ... 70代 80代以上
AGE_MAP ==
    (10 :> "10dai") @@ (20 :> "20dai") @@ (30 :> "30dai") @@ (40 :> "40dai")
    @@ (50 :> "50dai") @@ (60 :> "60dai") @@ (70 :> "70dai") @@ (80 :> "80dai+")

\* 100万円未満 100-200万円 200-300万円 300-400万円 400-600万円 600-800万円
\* 800-1000万円 1000-2000万円 2000万円以上 無回答
INCOME_MAP ==
    (100 :> "<100man") @@ (150 :> "100-200man") @@ (250 :> "200-300man")
    @@ (350 :> "300-400man") @@ (500 :> "400-600man") @@ (700 :> "600-800man")
    @@ (900 :> "800-1000man") @@ (1500 :> "1000-2000man")
    @@ (2000 :> ">=2000man") @@ (0 :> "no_answer")

\* 不明
UNKNOWN == "unknown"

\* get_age_label(data): the label of the most frequent decade
get_age_label(data) ==
    IF Len(data) = 0 THEN UNKNOWN
    ELSE LET ages_rounded == [i \in DOMAIN data |->
                                IF data[i].age = NaN THEN NaN
                                ELSE (data[i].age \div 10) * 10]
             age_value == Mode(ages_rounded)
         IN  IF age_value = NaN THEN UNKNOWN
             ELSE IF age_value \in DOMAIN AGE_MAP THEN AGE_MAP[age_value]
             ELSE ToString(age_value) \o "dai"

\* lines 161-170: the label of the mean of the positive incomes
RECURSIVE first_bucket(_, _, _)
first_bucket(codes, sum, cnt) ==
    IF codes = <<>> THEN UNKNOWN
    ELSE IF Head(codes) > 0 /\ sum <= Head(codes) * cnt THEN INCOME_MAP[Head(codes)]
    ELSE first_bucket(Tail(codes), sum, cnt)

income_label(data) ==
    LET Positive(row) == row.income > 0
        income_data == SelectSeq(data, Positive)
        F(row) == row.income
        \* avg_income as the fraction sum/cnt (0/1 when there is no income)
        sum == IF Len(income_data) > 0 THEN SumOver(income_data, F) ELSE 0
        cnt == IF Len(income_data) > 0 THEN Len(income_data) ELSE 1
    IN  IF sum > 1500 * cnt THEN INCOME_MAP[1500]
        ELSE first_bucket(Sorted(DOMAIN INCOME_MAP), sum, cnt)

\* a variant of stayers that takes the rows without a night too
stayers_with_zero_nights(data) ==
    LET Stayed(row) == row.nights >= 0
    IN  SelectSeq(data, Stayed)

\* stay_data[stay_data > 0]: the rows with at least one night in the prefecture
stayers(data) ==
    LET Stayed(row) == row.nights > 0
    IN  SelectSeq(data, Stayed)

\* a variant of stay_mean that averages over every row of the subset
stay_mean_every_row(data) ==
    LET F(row) == row.nights
    IN  Round1(SumOver(data, F), Len(data))

\* stay_data[stay_data > 0].mean(), rounded, as tenths
stay_mean(data) ==
    LET F(row) == row.nights
    IN  Round1(SumOver(stayers(data), F), Len(stayers(data)))

calc_basic_stats(data) ==
    LET n == Len(data)
        IsMale(row) == row.gender = 0
        IsFemale(row) == row.gender = 1
        companion_mode == Mode([i \in DOMAIN data |-> data[i].companion])
        companion_top ==
            IF companion_mode \in DOMAIN COMPANION_MAP
            THEN COMPANION_MAP[companion_mode] ELSE UNKNOWN
        \* round(0, 1) of the int 0 is the int 0
        avg_stay == IF Len(stayers(data)) > 0 THEN PyFloat(stay_mean(data))
                    ELSE PyInt(0)
    IN  IF n = 0 THEN EmptyDict
        ELSE PyDict(<<
            <<"sample_count", PyInt(n)>>,                          \* サンプル数
            <<"male(%)", PyFloat(Pct(Count(data, IsMale), n))>>,   \* 男性比率(%)
            <<"female(%)", PyFloat(Pct(Count(data, IsFemale), n))>>, \* 女性比率(%)
            <<"top_age", PyStr(get_age_label(data))>>,             \* 最多年代
            <<"top_companion", PyStr(companion_top)>>,             \* 最多同行者
            <<"mean_nights_in_pref", avg_stay>>,                   \* 平均宿泊数（県内）
            <<"mean_income_band", PyStr(income_label(data))>> >>)  \* 平均世帯年収帯

-----------------------------------------------------------------------------
(* calc_travel_stats, src/app.py 190-204 *)

\* a variant of calc_travel_stats whose thresholds 2 and 6 are exclusive
calc_travel_stats_exclusive(data) ==
    LET n == Len(data)
        First(row) == row.visits = 1
        Repeater(row) == row.visits > 2
        Heavy(row) == row.visits > 6
    IN  IF n = 0 THEN EmptyDict
        ELSE PyDict(<<
            <<"stay_rate(%)", PyFloat(Pct(Len(stayers(data)), n))>>,
            <<"mean_nights", PyFloat(IF Len(stayers(data)) > 0
                                     THEN stay_mean(data) ELSE 0)>>,
            <<"first_visit_rate(%)", PyFloat(Pct(Count(data, First), n))>>,
            <<"repeater_rate(%)", PyFloat(Pct(Count(data, Repeater), n))>>,
            <<"heavy_repeater_rate(%)", PyFloat(Pct(Count(data, Heavy), n))>> >>)

calc_travel_stats(data) ==
    LET n == Len(data)
        First(row) == row.visits = 1
        Repeater(row) == row.visits >= 2
        Heavy(row) == row.visits >= 6
    IN  IF n = 0 THEN EmptyDict
        ELSE PyDict(<<
            \* 宿泊率(%)
            <<"stay_rate(%)", PyFloat(Pct(Len(stayers(data)), n))>>,
            \* 平均宿泊数
            <<"mean_nights", PyFloat(IF Len(stayers(data)) > 0
                                     THEN stay_mean(data) ELSE 0)>>,
            \* 初訪問率(%)
            <<"first_visit_rate(%)", PyFloat(Pct(Count(data, First), n))>>,
            \* リピーター率(%)
            <<"repeater_rate(%)", PyFloat(Pct(Count(data, Repeater), n))>>,
            \* ヘビーリピーター率(%)
            <<"heavy_repeater_rate(%)", PyFloat(Pct(Count(data, Heavy), n))>> >>)

-----------------------------------------------------------------------------
(* calc_transport_stats, calc_purpose_stats, calc_info_source_stats,
   calc_visited_stats, src/app.py 206-266 *)

\* the inner calc_stats of calc_transport_stats: not sorted
transport_family(data, cols) ==
    IF Len(data) = 0 THEN EmptyDict ELSE PyDict(rate_items(data, cols))

\* 1次交通 / 県内交通
calc_transport_stats(df, data) ==
    PyDict(<<
        <<"primary", transport_family(data, prefix_cols(df, "transport1_"))>>,
        <<"in_pref", transport_family(data, prefix_cols(df, "transport2_"))>> >>)

\* a family reported as a ranking: sorted from the largest rate down
ranked_family(data, cols) ==
    IF Len(data) = 0 THEN EmptyDict
    ELSE PyDict(sorted_desc(rate_items(data, cols)))

calc_purpose_stats(df, data) == ranked_family(data, prefix_cols(df, "purpose_"))

\* デジタル / 非デジタル
calc_info_source_stats(df, data) ==
    PyDict(<<
        <<"digital", ranked_family(data, prefix_cols(df, "info_digital_"))>>,
        <<"nondigital", ranked_family(data, prefix_cols(df, "info_nondigital_"))>> >>)

calc_visited_stats(df, data) == ranked_family(data, prefix_cols(df, "visited_"))

-----------------------------------------------------------------------------
(* calc_expense_stats, src/app.py 268-286 *)

\* 消費額（交通） 消費額（飲食） 消費額（宿泊） 消費額（買い物） 消費額（観光・体験）
expense_cols == <<"transport", "food", "lodging", "shopping", "sightseeing">>

\* three digits of a thousands group
Pad3(v) ==
    IF v < 10 THEN "00" \o ToString(v)
    ELSE IF v < 100 THEN "0" \o ToString(v)
    ELSE ToString(v)

\* f"{v:,}": the digits of v >= 0 in groups of three
RECURSIVE FormatThousands(_)
FormatThousands(v) ==
    IF v < 1000 THEN ToString(v)
    ELSE FormatThousands(v \div 1000) \o "," \o Pad3(v % 1000)

\* f"{int(x):,}円" for x = num/den >= 0: int() drops the fraction
format_yen(num, den) == PyStr(FormatThousands(num \div den) \o "yen")

\* data[expense_cols].sum(axis=1) of one row; sum() skips NaN
row_total(row) ==
    SumSeq(dropna([i \in DOMAIN expense_cols |-> row.exp[expense_cols[i]]]))

\* the totals of the rows in ascending order
RECURSIVE sort_asc(_)
sort_asc(s) ==
    IF s = <<>> THEN <<>>
    ELSE LET i == CHOOSE i \in DOMAIN s : \A j \in DOMAIN s : s[i] <= s[j]
         IN  <<s[i]>> \o sort_asc(SubSeq(s, 1, i - 1) \o SubSeq(s, i + 1, Len(s)))

\* total.median() as the fraction num/den
median_num(totals) ==
    LET t == sort_asc(totals)
        n == Len(t)
    IN  IF n % 2 = 1 THEN 2 * t[(n + 1) \div 2]
        ELSE t[n \div 2] + t[n \div 2 + 1]

calc_expense_stats(data) ==
    LET n == Len(data)
        totals == [i \in DOMAIN data |-> row_total(data[i])]
        head == <<
            \* 総消費額（平均）
            <<"total_spend(mean)", format_yen(SumSeq(totals), n)>>,
            \* 総消費額（中央値）
            <<"total_spend(median)", format_yen(median_num(totals), 2)>> >>
        \* data[col].dropna()
        values(i) == dropna([k \in DOMAIN data |-> data[k].exp[expense_cols[i]]])
        \* f'{name}（平均）'; data[col].mean() skips NaN
        per_col == [i \in DOMAIN expense_cols |->
            <<expense_cols[i] \o "(mean)",
              format_yen(SumSeq(values(i)), Len(values(i)))>>]
    IN  IF n = 0 THEN EmptyDict
        \* line 284: the mean of a column with no value is nan, and int(nan)
        \* raises ValueError
        ELSE IF \E i \in DOMAIN expense_cols : values(i) = <<>>
        THEN Raised("ValueError")
        ELSE PyDict(head \o per_col)

-----------------------------------------------------------------------------
(* calc_satisfaction_stats, src/app.py 288-308 *)

\* 満足度（2次交通） 満足度（飲食） 満足度（宿泊） 満足度（買い物）
\* 満足度（観光・体験） 満足度（旅行全体）
sat_cols ==
    <<"local_transport", "food", "lodging", "shopping", "sightseeing", "overall">>

\* (nps_data >= 9).sum()
promoters(data) ==
    LET Test(row) == row.nps >= 9
    IN  Count(data, Test)

\* (nps_data <= 6).sum(); a missing NPS compares false
detractors(data) ==
    LET Test(row) == row.nps # NaN /\ row.nps <= 6
    IN  Count(data, Test)

\* a variant that subtracts the raw counts instead of the percentages
nps_score_raw_counts(data) == Round1(promoters(data) - detractors(data), 1)

\* round(promoters - detractors, 1) with both as percentages of len(nps_data)
nps_score(data) == Round1(100 * (promoters(data) - detractors(data)), Len(data))

calc_satisfaction_stats(data) ==
    LET n == Len(data)
        \* f'{name}満足度'
        sat == [i \in DOMAIN sat_cols |->
            <<sat_cols[i] \o "_satisfaction",
              PyFloat(mean1([k \in DOMAIN data |-> data[k].sat[sat_cols[i]]]))>>]
    IN  IF n = 0 THEN EmptyDict
        ELSE PyDict(sat \o <<
            <<"nps_score", PyFloat(nps_score(data))>>,                    \* NPSスコア
            <<"revisit_intention",                                        \* 再来訪意向
              PyFloat(mean1([k \in DOMAIN data |-> data[k].revisit]))>> >>)

-----------------------------------------------------------------------------
(* calc_seafood_stats, src/app.py 310-338 *)

\* the columns 食べた海の幸_* whose name does not contain 食べていない
eaten_cols(df) ==
    LET Test(col) == col[1] = "seafood_eaten_" /\ col[2] # "not_eaten"
    IN  SelectSeq(df.columns, Test)

\* seafood_names
seafood_names(df) == [i \in DOMAIN eaten_cols(df) |-> eaten_cols(df)[i][2]]

\* col in data.columns
HasColumn(df, col) == \E i \in DOMAIN df.columns : df.columns[i] = col

\* data[eaten_col].sum()
eaten_count(data, seafood) ==
    LET F(row) == row.ind[<<"seafood_eaten_", seafood>>]
    IN  SumOver(data, F)

\* data[impressed_col].sum()
impressed_count(data, seafood) ==
    LET F(row) == row.ind[<<"seafood_impressed_", seafood>>]
    IN  SumOver(data, F)

\* lines 331-336: the conversion rate of one item, in tenths
conversion_rate(data, seafood) ==
    IF eaten_count(data, seafood) > 0
    THEN Round1(100 * impressed_count(data, seafood), eaten_count(data, seafood))
    ELSE 0

\* 喫食率 / 感動率
calc_seafood_stats(df, data) ==
    LET names == seafood_names(df)
        HasEaten(seafood) == HasColumn(df, <<"seafood_eaten_", seafood>>)
        HasBoth(seafood) ==
            HasEaten(seafood) /\ HasColumn(df, <<"seafood_impressed_", seafood>>)
        with_eaten == SelectSeq(names, HasEaten)
        with_both == SelectSeq(names, HasBoth)
        eaten_rates == [i \in DOMAIN with_eaten |->
            <<with_eaten[i],
              PyFloat(Pct(eaten_count(data, with_eaten[i]), Len(data)))>>]
        conversion_rates == [i \in DOMAIN with_both |->
            <<with_both[i], PyFloat(conversion_rate(data, with_both[i]))>>]
    IN  IF Len(data) = 0 THEN PyTuple(<<EmptyDict, EmptyDict>>)
        ELSE PyDict(<<
            <<"eaten_rate", PyDict(eaten_rates)>>,
            <<"conversion_rate", PyDict(conversion_rates)>> >>)

-----------------------------------------------------------------------------
(* calc_sushi_stats, src/app.py 100-111, 340-359 *)

\* 食べていない 回転寿司店（チェーン店） 回転寿司店（地元） 居酒屋・レストラン（チェーン店）
\* 居酒屋・レストラン（地元） 持ち帰り（道の駅・スーパーなど） 専門店
SUSHI_TYPE_MAP ==
    <<
    <<0, "not_eaten">>, <<1, "conveyor_chain">>, <<2, "conveyor_local">>,
    <<3, "izakaya_chain">>, <<4, "izakaya_local">>, <<5, "takeout">>,
    <<6, "specialty">> >>

\* 食べていない 駅（売店・自販機など） 専門店 居酒屋・レストラン（地元）
\* 居酒屋・レストラン（チェーン店） 回転寿司店（地元） 回転寿司店（チェーン店）
\* 持ち帰り（道の駅・スーパーなど）
MASUZUSHI_TYPE_MAP ==
    <<
    <<0, "not_eaten">>, <<1, "station">>, <<2, "specialty">>,
    <<3, "izakaya_local">>, <<4, "izakaya_chain">>, <<5, "conveyor_local">>,
    <<6, "conveyor_chain">>, <<7, "takeout">> >>

\* one dish: the overall rate, then one rate per venue code other than 0,
\* in the order of the code table
dish_stats(codes, type_map) ==
    LET n == Len(codes)
        Ate(c) == c # 0
        venues == LET NotZero(e) == e[1] # 0 IN SelectSeq(type_map, NotZero)
        per_venue == [i \in DOMAIN venues |->
            LET Is(c) == c = venues[i][1]
            IN  <<venues[i][2], PyFloat(Pct(Count(codes, Is), n))>>]
    IN  PyDict(<< <<"eaten_rate", PyFloat(Pct(Count(codes, Ate), n))>> >> \o per_venue)

\* 寿司 / ます寿し
calc_sushi_stats(data) ==
    IF Len(data) = 0 THEN PyTuple(<<EmptyDict, EmptyDict>>)
    ELSE PyDict(<<
        <<"sushi", dish_stats([i \in DOMAIN data |-> data[i].sushi], SUSHI_TYPE_MAP)>>,
        <<"masuzushi", dish_stats([i \in DOMAIN data |-> data[i].masuzushi],
                                   MASUZUSHI_TYPE_MAP)>> >>)

-----------------------------------------------------------------------------
(* main: the report assembly, src/app.py 814-1198 *)

\* 単一地域レポート / 2地域比較レポート
SINGLE == "single"
DUAL == "dual"

\* a variant of Take without the limit
Take_no_limit(s, n) == s

\* s[:n]
Take(s, n) == SubSeq(s, 1, IF Len(s) < n THEN Len(s) ELSE n)

\* the aggregator a branch of the loop calls
aggregate(df, section, data) ==
    CASE section = "Basic" -> calc_basic_stats(data)
      [] section = "Travel" -> calc_travel_stats(data)
      [] section = "Transport" -> calc_transport_stats(df, data)
      [] section = "Purpose" -> calc_purpose_stats(df, data)
      [] section = "InfoSource" -> calc_info_source_stats(df, data)
      [] section = "Visited" -> calc_visited_stats(df, data)
      [] section = "Expense" -> calc_expense_stats(data)
      [] section = "SatisfactionNPS" -> calc_satisfaction_stats(data)
      [] section = "Seafood" -> calc_seafood_stats(df, data)
      [] section = "Sushi" -> calc_sushi_stats(data)

\* the families a branch takes out of the aggregator's value by subscript;
\* none for a section whose value is stored as it is
families(section) ==
    CASE section = "Transport" -> <<"primary", "in_pref">>
      [] section = "InfoSource" -> <<"digital", "nondigital">>
      [] section = "Seafood" -> <<"eaten_rate", "conversion_rate">>
      [] section = "Sushi" -> <<"sushi", "masuzushi">>
      [] OTHER -> <<>>

\* a variant of table_keys that takes the row keys of a two-region ranking
\* table from region 2's ranking whenever region 2 has one
table_keys_of_region_two(mode, section, stats) ==
    LET first == stats[1]
        either == IF mode = DUAL /\ Truthy(stats[2]) THEN Keys(stats[2])
                  ELSE Keys(first)
    IN  CASE section \in {"Basic", "Travel", "Expense", "SatisfactionNPS"} -> either
          [] section \in {"Purpose", "Visited"} -> Take(either, 10)
          [] section = "Transport" ->
                Take(Keys(PyDict(sorted_desc(first.items))), 8)
          [] section = "InfoSource" -> Take(Keys(first), 8)
          [] section \in {"Seafood", "Sushi"} -> Keys(first)

\* the row keys of the table a branch shows for stats = (stats1, [stats2,] all)
table_keys(mode, section, stats) ==
    LET first == stats[1]
        \* display_dual_comparison_table / display_dual_ranking_table:
        \* list(stats1.keys()) if stats1 else list(stats2.keys()) if stats2 else []
        either == IF Truthy(first) THEN Keys(first)
                  ELSE IF Truthy(stats[2]) THEN Keys(stats[2]) ELSE <<>>
        base == IF mode = SINGLE THEN Keys(first) ELSE either
    IN  CASE section \in {"Basic", "Travel", "Expense", "SatisfactionNPS"} -> base
          [] section \in {"Purpose", "Visited"} -> Take(base, 10)
          [] section = "Transport" ->
                Take(Keys(PyDict(sorted_desc(first.items))), 8)
          [] section = "InfoSource" -> Take(Keys(first), 8)
          [] section \in {"Seafood", "Sushi"} -> Keys(first)

\* the display_* functions show a table only "if data:"; the tables built
\* inline call pd.DataFrame(data).set_index('No'), a KeyError when data is empty
guarded(section) ==
    section \in {"Basic", "Travel", "Purpose", "Visited", "Expense", "SatisfactionNPS"}

\* the inline tables of a branch (lines 901-918, 934-951, 979-1027, 1069-1083,
\* 1101-1115, 1147-1186): an empty one ends the run with a KeyError
shown(mode, section, entry) ==
    IF \E j \in DOMAIN entry.items :
            table_keys(mode, section, entry.items[j][2].items) = <<>>
    THEN [exc |-> "KeyError", stored |-> TRUE, value |-> entry]
    ELSE [exc |-> "", stored |-> TRUE, value |-> entry]

\* results[id] = {family: (stats1[family], [stats2[family],] all[family])}
family_entry(fams, stats) ==
    PyDict([j \in DOMAIN fams |->
        <<fams[j], PyTuple([i \in DOMAIN stats |-> Lookup(stats[i], fams[j])])>>])

\* one pass of the loop body for one section, given the values the aggregator
\* returned for (region_data1, [region_data2,] all_data): what is stored in
\* results, and the exception that ends the run, if any
step_of(mode, section, fams, stats) ==
    IF \E i \in DOMAIN stats : stats[i].py = "raise"
    THEN [exc |-> stats[CHOOSE i \in DOMAIN stats : stats[i].py = "raise"].exc,
          stored |-> FALSE, value |-> EmptyDict]
    ELSE IF fams = <<>>
    THEN [exc |-> "", stored |-> TRUE, value |-> PyTuple(stats)]
    ELSE IF \E i \in DOMAIN stats : \E j \in DOMAIN fams :
                ~CanSubscript(stats[i], fams[j])
    THEN [exc |-> "TypeError", stored |-> FALSE, value |-> EmptyDict]
    ELSE shown(mode, section, family_entry(fams, stats))

section_step(df, mode, section, subsets) ==
    step_of(mode, section, families(section),
            [i \in DOMAIN subsets |-> aggregate(df, section, subsets[i])])

\* results after the loop body for one section
store(res, section, step) ==
    IF step.stored THEN DictSet(res, REPORT_SECTIONS[section], step.value) ELSE res

\* for section in selected_sections: ..., until the end or an exception
RECURSIVE assemble(_, _, _, _, _)
RECURSIVE after_step(_, _, _, _, _, _)
assemble(df, mode, sections, subsets, res) ==
    IF sections = <<>> THEN [results |-> res, exc |-> ""]
    ELSE after_step(df, mode, sections, subsets, res,
                    section_step(df, mode, Head(sections), subsets))

after_step(df, mode, sections, subsets, res, step) ==
    IF step.exc # ""
    THEN [results |-> store(res, Head(sections), step), exc |-> step.exc]
    ELSE assemble(df, mode, Tail(sections), subsets, store(res, Head(sections), step))

\* lines 843-846: the checked sections in the order of REPORT_SECTIONS
checked_sections(checked) ==
    LET Test(name) == name \in checked
    IN  SelectSeq(SECTION_NAMES, Test)

\* a variant of the truncation that keeps the last five
truncated_to_last_five(all_checked) ==
    IF Len(all_checked) > 5
    THEN SubSeq(all_checked, Len(all_checked) - 4, Len(all_checked))
    ELSE all_checked

\* lines 848-850: at most five sections
truncated(all_checked) ==
    IF Len(all_checked) > 5 THEN Take(all_checked, 5) ELSE all_checked

\* a variant of the extraction that puts the reference population first
extract_reference_first(df, mode, region1, region2) ==
    IF mode = DUAL
    THEN <<get_all_target_data(df), get_region_data(df, region1),
           get_region_data(df, region2)>>
    ELSE <<get_all_target_data(df), get_region_data(df, region1)>>

\* lines 861-865: (region_data1, [region_data2,] all_data)
extract(df, mode, region1, region2) ==
    IF mode = DUAL
    THEN <<get_region_data(df, region1), get_region_data(df, region2),
           get_all_target_data(df)>>
    ELSE <<get_region_data(df, region1), get_all_target_data(df)>>

-----------------------------------------------------------------------------
(* The tables on the page and in the PDF, src/app.py 365-808, 901-1186.
   A table is its data rows; a row is the texts of its cells: No, key, and
   one value per subset.  Column captions and styles are not modelled. *)

\* f"{x:.1f}" of a float held as tenths
Fmt1(t) ==
    IF t = NanTenths THEN "nan"
    ELSE IF t < 0 THEN "-" \o ToString((-t) \div 10) \o "." \o ToString((-t) % 10)
    ELSE ToString(t \div 10) \o "." \o ToString(t % 10)

\* the placeholder for a key a mapping does not have: '-'
MISSING == PyStr("-")

\* str(val) of an int or a str
str(v) == IF v.py = "int" THEN ToString(v.n) ELSE v.s

\* display_*: f"{val:.1f}" if isinstance(val, float), else the value as it is
display_val(v) == IF v.py = "float" THEN Fmt1(v.tenths) ELSE str(v)

\* generate_pdf_*.format_val
format_val(v) == IF v.py = "float" THEN Fmt1(v.tenths) ELSE str(v)

\* f"{val:.1f}" of a float or an int
fixed1(v) == IF v.py = "float" THEN Fmt1(v.tenths) ELSE ToString(v.n) \o ".0"

DISPLAY == "display"
INLINE_DUAL == "inline_dual"
PDF == "pdf"

\* the text of the cell of one subset's mapping d for key:
\*   display_* and the single-region inline tables: d.get(key, '-')
\*   two-region inline tables (1079-1081 and alike): f"{d.get(key, 0):.1f}"
\*   PDF: format_val(d.get(key, '-'))
cell_text(style, d, key) ==
    CASE style = DISPLAY -> display_val(DictGet(d, key, MISSING))
      [] style = INLINE_DUAL -> fixed1(DictGet(d, key, PyInt(0)))
      [] style = PDF -> format_val(DictGet(d, key, MISSING))

\* the data rows of a table over keys for stats = (stats1, [stats2,] all)
rows_of(style, keys, stats) ==
    [i \in DOMAIN keys |->
        <<ToString(i), keys[i]>>
        \o [k \in DOMAIN stats |-> cell_text(style, stats[k], keys[i])]]

\* the style of the table a branch of main shows on the page
screen_style(mode, section) ==
    IF mode = DUAL /\ ~guarded(section) THEN INLINE_DUAL ELSE DISPLAY

\* the row keys of the table generate_pdf_single / generate_pdf_dual builds
pdf_keys(mode, section, stats) ==
    LET first == stats[1]
        \* list(stats1.keys()) if stats1 else list(stats2.keys())
        either == IF Truthy(first) THEN Keys(first) ELSE Keys(stats[2])
        base == IF mode = SINGLE THEN Keys(first) ELSE either
    IN  CASE section \in {"Basic", "Travel", "Expense", "SatisfactionNPS",
                          "Seafood", "Sushi"} -> base
          [] section \in {"Purpose", "Visited"} -> Take(base, 10)
          [] section = "Transport" ->
                Take(Keys(PyDict(sorted_desc(first.items))), 8)
          [] section = "InfoSource" -> Take(base, 8)

\* the families of a stored entry, "" for an entry stored as one tuple
tables_in(section) ==
    IF families(section) = <<>> THEN <<"">> ELSE families(section)

\* the (stats1, [stats2,] all) tuple behind one table of a stored entry
stats_behind(entry, family) ==
    IF family = "" THEN entry.items ELSE Lookup(entry, family).items

\* the tables main puts on the page: display_* leaves out a table without
\* rows; a branch that builds its tables inline stops (KeyError) at the first
\* table without rows
put_on_page(section, tables) ==
    LET HasRows(t) == t.rows # <<>>
        stop == {j \in DOMAIN tables : tables[j].rows = <<>>}
        upto == IF stop = {} THEN Len(tables)
                ELSE (CHOOSE j \in stop : \A m \in stop : j <= m) - 1
    IN  IF guarded(section) THEN SelectSeq(tables, HasRows)
        ELSE SubSeq(tables, 1, upto)

\* the subheader of a section and its tables on the page
screen_block(mode, section, entry) ==
    [title |-> section,
     tables |-> put_on_page(section,
        [j \in DOMAIN tables_in(section) |->
            [family |-> tables_in(section)[j],
             rows |-> rows_of(screen_style(mode, section),
                         table_keys(mode, section,
                                    stats_behind(entry, tables_in(section)[j])),
                         stats_behind(entry, tables_in(section)[j]))]])]

\* the heading of a section and its tables in the PDF
pdf_block(mode, section, entry) ==
    [title |-> section,
     tables |-> [j \in DOMAIN tables_in(section) |->
            [family |-> tables_in(section)[j],
             rows |-> rows_of(PDF,
                         pdf_keys(mode, section,
                                  stats_behind(entry, tables_in(section)[j])),
                         stats_behind(entry, tables_in(section)[j]))]]]

\* the sections of the list that have an entry in results
stored_sections(sections, res) ==
    LET Stored(section) == HasKey(res, REPORT_SECTIONS[section])
    IN  SelectSeq(sections, Stored)

\* what the loop put on the page: a block per section whose branch got as
\* far as its subheader (every branch stores its entry before the subheader)
page_of(mode, sections, res) ==
    [i \in DOMAIN stored_sections(sections, res) |->
        screen_block(mode, stored_sections(sections, res)[i],
                     Lookup(res, REPORT_SECTIONS[stored_sections(sections, res)[i]]))]

\* no download button
NoPdf == [exported |-> FALSE, blocks |-> <<>>]

\* generate_pdf_single / generate_pdf_dual: "section == ... and key in results"
generate_pdf(mode, sections, res) ==
    [exported |-> TRUE,
     blocks |-> [i \in DOMAIN stored_sections(sections, res) |->
        pdf_block(mode, stored_sections(sections, res)[i],
                  Lookup(res, REPORT_SECTIONS[stored_sections(sections, res)[i]]))]]

\* a variant of the request without the "if not selected_sections" guard
request_without_guard(button, sections) ==
    IF ~(button \/ sections # <<>>) THEN "idle" ELSE "report"

\* lines 855-858: what a run does with the button and the section list
request(button, sections) ==
    IF ~(button \/ sections # <<>>) THEN "idle"
    ELSE IF sections = <<>> THEN "choose_sections"
    ELSE "report"

\* lines 874-1198 once the loop has run: the page, and the PDF when the loop
\* ended without an exception
report(mode, sections, run) ==
    /\ results' = run.results
    /\ screen' = page_of(mode, sections, run.results)
    /\ pdf' = IF run.exc = "" THEN generate_pdf(mode, sections, run.results)
              ELSE NoPdf
    /\ outcome' = IF run.exc = "" THEN "ok" ELSE run.exc

\* a run that shows no report: nothing (idle) or the st.warning of line 857
no_report(shown_as) ==
    /\ results' = EmptyDict
    /\ screen' = <<>>
    /\ pdf' = NoPdf
    /\ outcome' = shown_as

\* a variant of remaining_regions that offers the whole list
remaining_regions_whole_list(selected) == REGION_ORDER

\* remaining_regions = [r for r in REGION_ORDER if r != selected_region]
remaining_regions(selected) ==
    LET Test(r) == r # selected
    IN  SelectSeq(REGION_ORDER, Test)

\* df of main after lines 861-865: get_region_data once or twice, then
\* get_all_target_data, each called with df
df_after_extract(df, mode) ==
    LET first == df_with_region(df).df
        second == IF mode = DUAL THEN df_with_region(first).df ELSE first
    IN  df_with_region(second).df

\* lines 821-1188 with the table in hand
script(df, mode, region1, region2, all_checked, sections, button) ==
    /\ mode \in {SINGLE, DUAL}
    /\ \E i \in DOMAIN REGION_ORDER : REGION_ORDER[i] = region1
    /\ IF mode = SINGLE THEN region2 = None
       ELSE \E i \in DOMAIN remaining_regions(region1) :
               remaining_regions(region1)[i] = region2
    /\ cache' = df
    /\ compare_mode' = mode
    /\ selected_region' = region1
    /\ selected_region2' = region2
    /\ checkboxes' = {all_checked[i] : i \in DOMAIN all_checked}
    /\ selected_sections' = sections
    /\ sidebar_warning' = (Len(all_checked) > 5)
    /\ generate_button' = button
    /\ main_df' = IF request(button, sections) = "report"
                  THEN df_after_extract(df, mode) ELSE df
    /\ IF request(button, sections) = "report"
       THEN report(mode, sections,
                   assemble(df, mode, sections,
                            extract(df, mode, region1, region2), EmptyDict))
       ELSE no_report(request(button, sections))

\* a variant of main without st.cache_data: every run fetches the sheet
main_fetch_every_run(raw, mode, region1, region2, checked, button) ==
    /\ sheet' = raw
    /\ script(load_data(raw), mode, region1, region2,
              checked_sections(checked), truncated(checked_sections(checked)),
              button)

\* One run of the script.  raw is what the sheet holds if it is fetched now;
\* mode, region1, region2, checked, button are the widget values.
main(raw, mode, region1, region2, checked, button) ==
    /\ sheet' = raw
    /\ script(IF cache.loaded THEN cache ELSE load_data(raw), mode, region1, region2,
              checked_sections(checked), truncated(checked_sections(checked)),
              button)

Init ==
    /\ cache = NoTable
    /\ sheet = NoSheet
    /\ compare_mode = None
    /\ selected_region = None
    /\ selected_region2 = None
    /\ checkboxes = DEFAULT_SECTIONS
    /\ generate_button = FALSE
    /\ selected_sections = <<>>
    /\ sidebar_warning = FALSE
    /\ results = EmptyDict
    /\ screen = <<>>
    /\ pdf = NoPdf
    /\ main_df = NoTable
    /\ outcome = "not_run"

-----------------------------------------------------------------------------
(* The tables and widget values of the specifications *)

\* the indicator columns of the sheet, in the order of the sheet: <<prefix, item>>
\* 1次交通_ 県内交通_ 訪問目的_ 情報源（デジタル）_ 情報源（非デジタル）_ 訪問先_
\* 食べた海の幸_ 感動した海の幸_ ; 食べていない is "not_eaten", 感動していない "not_impressed"
SheetColumns ==
    <<
    <<"transport1_", "car">>, <<"transport1_", "shinkansen">>,
    <<"transport2_", "bus">>, <<"transport2_", "rental_car">>,
    <<"purpose_", "onsen">>, <<"purpose_", "gourmet">>, <<"purpose_", "nature">>,
    <<"info_digital_", "sns">>, <<"info_digital_", "web">>,
    <<"info_nondigital_", "magazine">>, <<"info_nondigital_", "word_of_mouth">>,
    <<"visited_", "kurobe">>, <<"visited_", "tateyama">>, <<"visited_", "gokayama">>,
    <<"seafood_eaten_", "buri">>, <<"seafood_eaten_", "not_eaten">>,
    <<"seafood_impressed_", "buri">>, <<"seafood_impressed_", "not_eaten">>,
    <<"seafood_impressed_", "not_impressed">> >>

ColumnSet == {SheetColumns[i] : i \in DOMAIN SheetColumns}

\* one respondent; the fields are the columns of the sheet:
\* 居住地 居住エリア 性別 年代 世帯年収 同行者 宿泊数（県内） 来県回数 消費額（..）
\* 満足度（..） NPS 再来訪意向 訪問した寿司店形態 訪問したます寿し店形態, and the indicators
SampleRow ==
    [home |-> "1", area |-> 1, gender |-> 0, age |-> 35, income |-> 500,
     companion |-> 4, nights |-> 1, visits |-> 1,
     exp |-> [c \in {expense_cols[i] : i \in DOMAIN expense_cols} |-> 1000],
     sat |-> [c \in {sat_cols[i] : i \in DOMAIN sat_cols} |-> 4],
     nps |-> 8, revisit |-> 4, sushi |-> 1, masuzushi |-> 0,
     ind |-> [c \in ColumnSet |-> IF c[2] = "not_eaten" THEN 0 ELSE 1]]

\* the sheets with at most n rows taken from a set of rows
Sheets(rowSet, n) ==
    {[columns |-> SheetColumns, rows |-> rows] :
        rows \in UNION {[1..k -> rowSet] : k \in 0..n}}

\* widget values: <<mode, region1, region2>>
Regions(S) ==
    {<<SINGLE, a, None>> : a \in S}
    \cup {<<DUAL, p[1], p[2]>> : p \in {q \in S \X S : q[1] # q[2]}}

-----------------------------------------------------------------------------
(* Spec: the report assembly over small sheets, every section *)

AssemblyRows == {[SampleRow EXCEPT !.home = h] : h \in {"1", "2"}}

AssemblySheets == Sheets(AssemblyRows, MaxRows)

AssemblyRegions == Regions({"Toyama", "Tokyo"})

\* <<checked, generate_button>>: one section, the three checked at the start,
\* all ten, and none with and without the button
AssemblyChecked ==
    {<<{SECTION_NAMES[i]}, FALSE>> : i \in DOMAIN SECTION_NAMES}
    \cup {<<DEFAULT_SECTIONS, FALSE>>,
          <<{SECTION_NAMES[i] : i \in DOMAIN SECTION_NAMES}, TRUE>>,
          <<{}, FALSE>>, <<{}, TRUE>>}

\* the sheet is fetched only by the run that finds the cache empty; the sheet
\* at the URL stays as it is
Fetched(sheets) == IF cache.loaded THEN {sheet} ELSE sheets

Next ==
    \E raw \in Fetched(AssemblySheets), w \in AssemblyRegions, c \in AssemblyChecked :
        main(raw, w[1], w[2], w[3], c[1], c[2])

Spec == Init /\ [][Next]_vars

-----------------------------------------------------------------------------
(* What a run called *)

\* the run got as far as showing a report
Ran == outcome \in {"ok", "TypeError", "KeyError", "ValueError"}

\* the subsets the last run extracted from the table
RunSubsets == extract(cache, compare_mode, selected_region, selected_region2)

\* the loop reached the i-th selected section: every section before it was
\* stored, and a section whose branch raised before storing is the next one
Called(i) ==
    \/ i <= Len(results.items)
    \/ outcome \in {"TypeError", "ValueError"} /\ i = Len(results.items) + 1

\* a mapping with no entries; for the aggregators that return one mapping per
\* family, a mapping whose families have no entries
IsEmptyMapping(v) ==
    /\ v.py = "dict"
    /\ \A i \in DOMAIN v.items :
          v.items[i][2].py = "dict" /\ v.items[i][2].items = <<>>

-----------------------------------------------------------------------------
(* C1, C2: empty subsets and the assembly loop (Spec) *)

\* C1 (as claimed): whenever a run calls an aggregator on a subset with zero
\* rows, the value returned is a mapping with no entries (for transport and
\* information source: a mapping of families with no entries), never a tuple.
\* calc_seafood_stats and calc_sushi_stats return the tuple ({}, {}).
C1_EmptySubsetGivesEmptyMapping ==
    Ran =>
        \A i \in DOMAIN selected_sections : \A k \in DOMAIN RunSubsets :
            (Called(i) /\ RunSubsets[k] = <<>>) =>
                IsEmptyMapping(aggregate(cache, selected_sections[i], RunSubsets[k]))

\* C2 (as claimed): a run with at least one section selected ends without an
\* exception and results holds an entry for every selected section.
C2_ReportNeverRaises ==
    (outcome # "not_run" /\ selected_sections # <<>>) =>
        /\ outcome = "ok"
        /\ \A i \in DOMAIN selected_sections :
              HasKey(results, REPORT_SECTIONS[selected_sections[i]])

-----------------------------------------------------------------------------
(* Reading the stored results *)

\* the values stored for one family of a section, one per subset of the run
StoredFamily(key, family) == Lookup(Lookup(results, key), family).items

\* the values stored for a section whose aggregator value is stored as it is
StoredStats(key) == Lookup(results, key).items

Abs(x) == IF x < 0 THEN -x ELSE x

\* t tenths is num/den to the nearest tenth (whichever way a tie falls)
NearestTenth(t, num, den) == den > 0 /\ 2 * Abs(t * den - 10 * num) <= den

-----------------------------------------------------------------------------
(* SpecSeafood: sheets whose rows differ in having eaten and having been
   impressed by one seafood item *)

SeafoodRows ==
    {[SampleRow EXCEPT !.ind = [@ EXCEPT ![<<"seafood_eaten_", "buri">>] = e,
                                         ![<<"seafood_impressed_", "buri">>] = m]] :
        e \in {0, 1}, m \in {0, 1}}

SeafoodSheets == Sheets(SeafoodRows, MaxRowsSeafood)

SeafoodRegions == Regions({"Toyama", "Tokyo"})

SeafoodChecked == {<<{"Seafood"}, FALSE>>, <<{"Basic", "Seafood"}, FALSE>>}

NextSeafood ==
    \E raw \in Fetched(SeafoodSheets), w \in SeafoodRegions, c \in SeafoodChecked :
        main(raw, w[1], w[2], w[3], c[1], c[2])

SpecSeafood == Init /\ [][NextSeafood]_vars

\* the rows of a subset that ate the item
Ate(data, seafood) ==
    {i \in DOMAIN data : data[i].ind[<<"seafood_eaten_", seafood>>] = 1}

\* the rows of a subset that ate the item and were impressed by it
AteAndImpressed(data, seafood) ==
    {i \in Ate(data, seafood) : data[i].ind[<<"seafood_impressed_", seafood>>] = 1}

\* C3 (as claimed): every conversion rate stored for a non-empty subset is
\* between 0.0 and 100.0, and is 0.0 when no row of the subset ate the item.
\* The code divides the impressed rows of the whole subset by the rows that
\* ate, so a row impressed without having eaten lifts the rate above 100.
C3_ConversionRateWithinRange ==
    (Ran /\ HasKey(results, "seafood")) =>
        \A k \in DOMAIN StoredFamily("seafood", "conversion_rate") :
            LET rates == StoredFamily("seafood", "conversion_rate")[k].items
            IN  \A j \in DOMAIN rates :
                    /\ rates[j][2].tenths \in 0..1000
                    /\ Ate(RunSubsets[k], rates[j][1]) = {}
                          => rates[j][2].tenths = 0

\* C10 (as claimed): when at least one row of the subset ate the item, the
\* stored conversion rate is 100 * (rows that ate it and were impressed) /
\* (rows that ate it), to one decimal. The code counts every impressed row.
C10_ConversionRateAmongEaters ==
    (Ran /\ HasKey(results, "seafood")) =>
        \A k \in DOMAIN StoredFamily("seafood", "conversion_rate") :
            LET rates == StoredFamily("seafood", "conversion_rate")[k].items
            IN  \A j \in DOMAIN rates :
                    Ate(RunSubsets[k], rates[j][1]) # {} =>
                        NearestTenth(rates[j][2].tenths,
                            100 * Cardinality(AteAndImpressed(RunSubsets[k], rates[j][1])),
                            Cardinality(Ate(RunSubsets[k], rates[j][1])))

-----------------------------------------------------------------------------
(* SpecNps: sheets whose rows differ in the NPS answer, around the two
   thresholds *)

NpsRows == {[SampleRow EXCEPT !.nps = v] : v \in {6, 7, 8, 9}}

NpsSheets == Sheets(NpsRows, MaxRowsNps)

NpsRegions == Regions({"Toyama", "Tokyo"})

NpsChecked == {<<{"SatisfactionNPS"}, FALSE>>}

NextNps ==
    \E raw \in Fetched(NpsSheets), w \in NpsRegions, c \in NpsChecked :
        main(raw, w[1], w[2], w[3], c[1], c[2])

SpecNps == Init /\ [][NextNps]_vars

\* the rows of a subset whose NPS answer is in a set of answers
Answered(data, answers) == {i \in DOMAIN data : data[i].nps \in answers}

\* C4: for every non-empty subset of a run, the stored NPS score is
\* 100 * (rows scoring 9 or 10 - rows scoring 0 to 6) / rows, to one decimal
\* (rows scoring 7 or 8 count for neither side), and lies in [-100.0, 100.0].
C4_NpsScore ==
    (Ran /\ HasKey(results, "satisfaction")) =>
        \A k \in DOMAIN StoredStats("satisfaction") :
            RunSubsets[k] # <<>> =>
                LET t == Lookup(StoredStats("satisfaction")[k], "nps_score").tenths
                    P == Cardinality(Answered(RunSubsets[k], 9..10))
                    D == Cardinality(Answered(RunSubsets[k], 0..6))
                IN  /\ NearestTenth(t, 100 * (P - D), Len(RunSubsets[k]))
                    /\ t \in -1000..1000

\* two promoters, one passive and one detractor among four rows: NPS 25.0
C4_Witness ==
    /\ outcome = "ok"
    /\ HasKey(results, "satisfaction")
    /\ Len(RunSubsets[1]) = 4
    /\ Cardinality(Answered(RunSubsets[1], 9..10)) = 2
    /\ Cardinality(Answered(RunSubsets[1], 7..8)) = 1
    /\ Cardinality(Answered(RunSubsets[1], 0..6)) = 1
    /\ Lookup(StoredStats("satisfaction")[1], "nps_score") = PyFloat(250)

-----------------------------------------------------------------------------
(* SpecRanking: sheets whose rows differ in the indicators of one ranked
   family: visit purpose, visited site, or one information source family *)

\* the rows that differ from SampleRow in the indicators of one prefix
FamilyRows(prefix) ==
    LET cols == {c \in ColumnSet : c[1] = prefix}
    IN  {[SampleRow EXCEPT !.ind = [c \in ColumnSet |->
                                       IF c \in cols THEN bits[c] ELSE @[c]]] :
            bits \in [cols -> {0, 1}]}

RankedPrefixes == {"purpose_", "visited_", "info_digital_", "info_nondigital_"}

RankingSheets == UNION {Sheets(FamilyRows(p), MaxRowsRanking) : p \in RankedPrefixes}

RankingRegions == Regions({"Toyama"})

RankingChecked == {<<{"Purpose"}, FALSE>>, <<{"Visited"}, FALSE>>,
                   <<{"InfoSource"}, FALSE>>}

NextRanking ==
    \E raw \in Fetched(RankingSheets), w \in RankingRegions, c \in RankingChecked :
        main(raw, w[1], w[2], w[3], c[1], c[2])

SpecRanking == Init /\ [][NextRanking]_vars

\* the place of a column in the table
ColumnIndex(col) == CHOOSE n \in DOMAIN cache.columns : cache.columns[n] = col

\* a stored ranking holds every column of the prefix, no entry is followed by
\* a larger one, and entries of equal value are in the order of their columns
Ranked(d, prefix) ==
    /\ Len(d.items) = Cardinality({c \in ColumnSet : c[1] = prefix})
    /\ \A i, j \in DOMAIN d.items :
          i < j =>
              /\ d.items[i][2].tenths >= d.items[j][2].tenths
              /\ d.items[i][2].tenths = d.items[j][2].tenths
                    => ColumnIndex(<<prefix, d.items[i][1]>>)
                           < ColumnIndex(<<prefix, d.items[j][1]>>)

\* C5: for every non-empty subset of a run, the stored visit-purpose mapping,
\* visited-site mapping and the two information-source mappings are ordered
\* from the largest value to the smallest, and entries of equal value keep
\* the order in which their indicator columns occur in the table.
C5_RankingsDescendingStable ==
    Ran =>
        \A k \in DOMAIN RunSubsets :
            RunSubsets[k] # <<>> =>
                /\ HasKey(results, "purpose")
                      => Ranked(StoredStats("purpose")[k], "purpose_")
                /\ HasKey(results, "visited")
                      => Ranked(StoredStats("visited")[k], "visited_")
                /\ HasKey(results, "info_source")
                      => /\ Ranked(StoredFamily("info_source", "digital")[k],
                                   "info_digital_")
                         /\ Ranked(StoredFamily("info_source", "nondigital")[k],
                                   "info_nondigital_")

\* the second and third purpose columns tie above the first: the stored
\* order is the tie in column order, then the first column
C5_Witness ==
    /\ outcome = "ok"
    /\ HasKey(results, "purpose")
    /\ RunSubsets[1] # <<>>
    /\ Keys(StoredStats("purpose")[1]) = <<"gourmet", "nature", "onsen">>
    /\ StoredStats("purpose")[1].items[1][2] = StoredStats("purpose")[1].items[2][2]
    /\ StoredStats("purpose")[1].items[2][2].tenths
           > StoredStats("purpose")[1].items[3][2].tenths

-----------------------------------------------------------------------------
(* SpecRegion: sheets whose rows differ in the home value and the home area *)

\* home values: codes with a table entry, the two other codes the override
\* spares or not, the prefecture by name, and a value that is not a number
RegionHomes == {"1", "2", "3", "7", "12", "14", "5", "Fukui", "abc"}

RegionRows ==
    {[SampleRow EXCEPT !.home = h, !.area = a] : h \in RegionHomes, a \in {3, 4}}

RegionSheets == Sheets(RegionRows, MaxRowsRegion)

RegionRegions == {<<SINGLE, REGION_ORDER[i], None>> : i \in DOMAIN REGION_ORDER}

RegionChecked == {<<{"Basic"}, FALSE>>}

NextRegion ==
    \E raw \in Fetched(RegionSheets), w \in RegionRegions, c \in RegionChecked :
        main(raw, w[1], w[2], w[3], c[1], c[2])

SpecRegion == Init /\ [][NextRegion]_vars

\* how many rows of a subset are equal to a row
Occurrences(data, row) ==
    Cardinality({i \in DOMAIN data :
                    data[i] = ("region_name" :> data[i].region_name) @@ row})

RegionNames == {REGION_ORDER[i] : i \in DOMAIN REGION_ORDER}

\* the rows the override is about: area 4 and a parsed home code other than
\* 3, 12 and 1 (a home value that does not parse has no code at all)
Overridden(row) == row.area = 4 /\ to_numeric(row.home) \notin {3, 12, 1}

\* C6: after load_data every row with home area 4 whose parsed home code is
\* not 3, 12 or 1 has code 14, is in the subset get_region_data gives for
\* Fukui and in the subset of no other region; a run reports it under Fukui
\* and under no other region.
C6_AreaFourResolvesToFukui ==
    cache.loaded =>
        \A i \in DOMAIN cache.rows :
            Overridden(cache.rows[i]) =>
                /\ cache.rows[i].code = 14
                /\ \A r \in RegionNames :
                      Occurrences(get_region_data(cache, r), cache.rows[i]) > 0
                          <=> r = "Fukui"
                /\ Ran => (Occurrences(RunSubsets[1], cache.rows[i]) > 0
                              <=> selected_region = "Fukui")

\* a row with the code of Tokyo and home area 4 is the one row of the Fukui report
C6_Witness ==
    /\ outcome = "ok"
    /\ selected_region = "Fukui"
    /\ Len(RunSubsets[1]) = 1
    /\ RunSubsets[1][1].home = "2"
    /\ RunSubsets[1][1].area = 4
    /\ Lookup(StoredStats("basic")[1], "sample_count") = PyInt(1)

\* the sum of the sizes of the seven per-region subsets
RECURSIVE SumOfRegionSizes(_)
SumOfRegionSizes(names) ==
    IF names = <<>> THEN 0
    ELSE Len(get_region_data(cache, Head(names))) + SumOfRegionSizes(Tail(names))

\* C7: for the loaded table the seven per-region subsets are pairwise disjoint
\* and together are the reference population: its size is the sum of their
\* sizes, a row of the reference population is in exactly one of them as
\* often as it is in the reference population, and every other row is in none.
C7_RegionsPartitionPopulation ==
    cache.loaded =>
        /\ Len(get_all_target_data(cache)) = SumOfRegionSizes(REGION_ORDER)
        /\ \A i \in DOMAIN cache.rows :
              LET row == cache.rows[i]
                  holders == {r \in RegionNames :
                                 Occurrences(get_region_data(cache, r), row) > 0}
              IN  IF Occurrences(get_all_target_data(cache), row) > 0
                  THEN /\ Cardinality(holders) = 1
                       /\ \A r \in holders :
                             Occurrences(get_region_data(cache, r), row)
                                 = Occurrences(get_all_target_data(cache), row)
                  ELSE holders = {}

\* a report over a table with one row of Toyama and one row of Fukui; the
\* reference population of the run is these two rows
C7_Witness ==
    /\ outcome = "ok"
    /\ Len(get_region_data(cache, "Toyama")) = 1
    /\ Len(get_region_data(cache, "Fukui")) = 1
    /\ Len(RunSubsets[2]) = 2
    /\ RunSubsets[2] = get_all_target_data(cache)

-----------------------------------------------------------------------------
(* SpecTravel: sheets whose rows differ in the nights stayed in the prefecture *)

TravelRows == {[SampleRow EXCEPT !.nights = v] : v \in {0, 2, 3, 5}}

TravelSheets == Sheets(TravelRows, MaxRowsTravel)

TravelRegions == Regions({"Toyama", "Tokyo"})

TravelChecked == {<<{"Travel"}, FALSE>>}

NextTravel ==
    \E raw \in Fetched(TravelSheets), w \in TravelRegions, c \in TravelChecked :
        main(raw, w[1], w[2], w[3], c[1], c[2])

SpecTravel == Init /\ [][NextTravel]_vars

\* the rows of a subset with at least one night in the prefecture
Stayed(data) == {i \in DOMAIN data : data[i].nights > 0}

\* the nights of a subset, row by row
Nights(data) == [i \in DOMAIN data |-> data[i].nights]

\* C9: for every non-empty subset of a run the stored stay rate is
\* 100 * (rows with nights > 0) / rows to one decimal, and the stored mean
\* nights is the mean over the rows with nights > 0 only, to one decimal,
\* 0 when there is no such row; nights [0,2,3,5] give 75.0 and 3.3.
C9_StayRateAndMeanNights ==
    (Ran /\ HasKey(results, "travel")) =>
        \A k \in DOMAIN StoredStats("travel") :
            RunSubsets[k] # <<>> =>
                LET data == RunSubsets[k]
                    rate == Lookup(StoredStats("travel")[k], "stay_rate(%)").tenths
                    mean == Lookup(StoredStats("travel")[k], "mean_nights").tenths
                IN  /\ NearestTenth(rate, 100 * Cardinality(Stayed(data)), Len(data))
                    /\ IF Stayed(data) = {} THEN mean = 0
                       ELSE NearestTenth(mean,
                                SumSeq([i \in DOMAIN data |->
                                           IF i \in Stayed(data)
                                           THEN data[i].nights ELSE 0]),
                                Cardinality(Stayed(data)))
                    /\ Nights(data) = <<0, 2, 3, 5>> => rate = 750 /\ mean = 33

\* the report of a region whose rows have nights 0, 2, 3 and 5
C9_Witness ==
    /\ outcome = "ok"
    /\ HasKey(results, "travel")
    /\ Nights(RunSubsets[1]) = <<0, 2, 3, 5>>
    /\ Lookup(StoredStats("travel")[1], "stay_rate(%)") = PyFloat(750)
    /\ Lookup(StoredStats("travel")[1], "mean_nights") = PyFloat(33)

-----------------------------------------------------------------------------
(* SpecSelection: every choice of checkboxes among seven sections, and all
   ten, over a fixed one-row table and over the table without rows *)

SelectionSheets == {[columns |-> SheetColumns, rows |-> <<>>],
                    [columns |-> SheetColumns, rows |-> <<SampleRow>>]}

SelectionRegions == Regions({"Toyama"})

SelectionBoxes ==
    SUBSET {"Basic", "Travel", "Purpose", "Visited", "Expense",
            "SatisfactionNPS", "Sushi"}
    \cup {{SECTION_NAMES[i] : i \in DOMAIN SECTION_NAMES}}

SelectionChecked ==
    {<<boxes, FALSE>> : boxes \in SelectionBoxes} \cup {<<{}, TRUE>>}

NextSelection ==
    \E raw \in Fetched(SelectionSheets), w \in SelectionRegions,
       c \in SelectionChecked :
        main(raw, w[1], w[2], w[3], c[1], c[2])

SpecSelection == Init /\ [][NextSelection]_vars

\* the place of a section among the checkboxes of the sidebar
BoxIndex(name) == CHOOSE n \in DOMAIN SECTION_NAMES : SECTION_NAMES[n] = name

\* C11: after a run the section list holds checked sections only, in the
\* order of the checkboxes, none twice, and at most five.  With five or fewer
\* boxes checked it holds all of them and no truncation warning was shown;
\* with more than five it holds the first five of them and the warning was
\* shown.
C11_AtMostFiveSections ==
    outcome # "not_run" =>
        /\ Len(selected_sections) <= 5
        /\ \A i, j \in DOMAIN selected_sections :
              i < j => BoxIndex(selected_sections[i]) < BoxIndex(selected_sections[j])
        /\ \A i \in DOMAIN selected_sections : selected_sections[i] \in checkboxes
        /\ IF Cardinality(checkboxes) <= 5
           THEN /\ {selected_sections[i] : i \in DOMAIN selected_sections} = checkboxes
                /\ ~sidebar_warning
           ELSE /\ Len(selected_sections) = 5
                /\ sidebar_warning
                /\ \A left \in checkboxes :
                      (\A i \in DOMAIN selected_sections : selected_sections[i] # left)
                          => \A i \in DOMAIN selected_sections :
                                 BoxIndex(selected_sections[i]) < BoxIndex(left)

\* seven boxes are checked: the list is the first five and the warning is shown
C11_Witness ==
    /\ outcome = "ok"
    /\ Cardinality(checkboxes) = 7
    /\ selected_sections = <<"Basic", "Travel", "Purpose", "Visited", "Expense">>
    /\ sidebar_warning

-----------------------------------------------------------------------------
(* SpecBasic: sheets whose rows differ in gender and nights in the
   prefecture, and sheets whose rows differ in household income *)

\* gender 2 is a code that is neither male (0) nor female (1)
GenderNightsRows ==
    {[SampleRow EXCEPT !.gender = g, !.nights = v] : g \in {0, 1, 2}, v \in {0, 1, 4}}

IncomeRows == {[SampleRow EXCEPT !.income = v] : v \in {0, 100, 1500, 2000, 2500}}

BasicSheets ==
    Sheets(GenderNightsRows, MaxRowsBasic) \cup Sheets(IncomeRows, MaxRowsBasic)

BasicRegions == Regions({"Toyama", "Tokyo"})

BasicChecked == {<<{"Basic"}, FALSE>>}

NextBasic ==
    \E raw \in Fetched(BasicSheets), w \in BasicRegions, c \in BasicChecked :
        main(raw, w[1], w[2], w[3], c[1], c[2])

SpecBasic == Init /\ [][NextBasic]_vars

\* the rows of a subset with a positive household income
WithIncome(data) == {i \in DOMAIN data : data[i].income > 0}

\* the sum of the positive household incomes of a subset
IncomeSum(data) ==
    SumSeq([i \in DOMAIN data |-> IF i \in WithIncome(data) THEN data[i].income ELSE 0])

\* the positive bucket codes at or above the mean of the positive incomes
\* (the mean is 0 when there is none)
BucketsAtOrAbove(data) ==
    {c \in DOMAIN INCOME_MAP :
        c > 0 /\ IncomeSum(data) <= c * Cardinality(WithIncome(data))}

\* the highest bucket code of the income table
TopBucket == CHOOSE c \in DOMAIN INCOME_MAP : \A d \in DOMAIN INCOME_MAP : d <= c

\* C12 (as claimed): for every non-empty subset of a run the stored income
\* label is the label of the smallest positive bucket code at or above the
\* mean of the positive incomes, and the label of the top bucket when the
\* mean is above every bucket code.  The code forces the label of bucket
\* 1500 whenever the mean is above 1500.
C12_IncomeLabelAtOrAbove ==
    (Ran /\ HasKey(results, "basic")) =>
        \A k \in DOMAIN StoredStats("basic") :
            RunSubsets[k] # <<>> =>
                Lookup(StoredStats("basic")[k], "mean_income_band") =
                    PyStr(IF BucketsAtOrAbove(RunSubsets[k]) = {}
                          THEN INCOME_MAP[TopBucket]
                          ELSE INCOME_MAP[CHOOSE c \in BucketsAtOrAbove(RunSubsets[k]) :
                                   \A d \in BucketsAtOrAbove(RunSubsets[k]) : c <= d])

\* the rows of a subset with a gender code
OfGender(data, code) == {i \in DOMAIN data : data[i].gender = code}

\* the number a stored metric shows, in tenths, whether an int or a float
Tenths(v) == IF v.py = "int" THEN 10 * v.n ELSE v.tenths

\* C20: for every non-empty subset of a run the stored basic attributes give
\* the number of rows as the sample count, the mean of the nights over the
\* rows with nights > 0 only (0 when there is none), the share of rows with
\* gender code 0 as the male percentage and the share with code 1 as the
\* female percentage, each to one decimal; the two percentages add up to at
\* most 100 (one tenth is left for the rounding).
C20_BasicStats ==
    (Ran /\ HasKey(results, "basic")) =>
        \A k \in DOMAIN StoredStats("basic") :
            RunSubsets[k] # <<>> =>
                LET data == RunSubsets[k]
                    stats == StoredStats("basic")[k]
                    male == Lookup(stats, "male(%)").tenths
                    female == Lookup(stats, "female(%)").tenths
                    mean == Tenths(Lookup(stats, "mean_nights_in_pref"))
                IN  /\ Lookup(stats, "sample_count") = PyInt(Len(data))
                    /\ IF Stayed(data) = {} THEN mean = 0
                       ELSE NearestTenth(mean,
                                SumSeq([i \in DOMAIN data |->
                                           IF i \in Stayed(data)
                                           THEN data[i].nights ELSE 0]),
                                Cardinality(Stayed(data)))
                    /\ NearestTenth(male, 100 * Cardinality(OfGender(data, 0)), Len(data))
                    /\ NearestTenth(female, 100 * Cardinality(OfGender(data, 1)), Len(data))
                    /\ male + female <= 1001

\* three rows, one of each gender code, with 0, 4 and 4 nights: a third male,
\* a third female, mean nights 4.0
C20_Witness ==
    /\ outcome = "ok"
    /\ HasKey(results, "basic")
    /\ Len(RunSubsets[1]) = 3
    /\ [i \in 1..3 |-> RunSubsets[1][i].gender] = <<0, 1, 2>>
    /\ Nights(RunSubsets[1]) = <<0, 4, 4>>
    /\ Lookup(StoredStats("basic")[1], "sample_count") = PyInt(3)
    /\ Lookup(StoredStats("basic")[1], "male(%)") = PyFloat(333)
    /\ Lookup(StoredStats("basic")[1], "female(%)") = PyFloat(333)
    /\ Lookup(StoredStats("basic")[1], "mean_nights_in_pref") = PyFloat(40)

-----------------------------------------------------------------------------
(* C13: a run without a selected section (SpecSelection) *)

-----------------------------------------------------------------------------
(* C14, C15: the page and the PDF (Spec) *)

\* the tables of a block that have data rows
WithRows(tables) ==
    LET HasRows(t) == t.rows # <<>>
    IN  SelectSeq(tables, HasRows)

\* the sections of a page or a document, each with its tables that have rows
Content(blocks) ==
    [i \in DOMAIN blocks |->
        [title |-> blocks[i].title, tables |-> WithRows(blocks[i].tables)]]

\* C14 (as claimed): whenever a run offers the PDF, the PDF holds the same
\* sections in the same order as the page, and every table of it has the same
\* rows in the same order with the same cell texts as the table on the page
\* (a table without data rows counts as no table).
C14_ExportMatchesScreen ==
    pdf.exported => Content(pdf.blocks) = Content(screen)

\* the mapping of subset k behind a table on the page
Behind(block, table) ==
    stats_behind(Lookup(results, REPORT_SECTIONS[block.title]), table.family)

\* C15 (as claimed): in every table on the page, the cell of a subset whose
\* mapping does not have the key of the row shows the placeholder '-', never
\* a number.  The tables main builds inline in two-region mode show
\* f"{stats.get(key, 0):.1f}", that is "0.0".
C15_MissingShownAsNoData ==
    \A b \in DOMAIN screen : \A t \in DOMAIN screen[b].tables :
        \A r \in DOMAIN screen[b].tables[t].rows :
            \A k \in DOMAIN Behind(screen[b], screen[b].tables[t]) :
                ~HasKey(Behind(screen[b], screen[b].tables[t])[k],
                        screen[b].tables[t].rows[r][2])
                    => screen[b].tables[t].rows[r][2 + k] = MISSING.s

-----------------------------------------------------------------------------
(* C16: the shape of results (Spec) *)

\* the internal identifiers of the first n selected sections, in order
StoredIds(n) == [i \in 1..n |-> REPORT_SECTIONS[selected_sections[i]]]

\* the subsets a run is to report on: the first region, the second region in
\* two-region mode, and the reference population last
ReportedSubsets ==
    IF compare_mode = DUAL
    THEN <<get_region_data(cache, selected_region),
           get_region_data(cache, selected_region2),
           get_all_target_data(cache)>>
    ELSE <<get_region_data(cache, selected_region), get_all_target_data(cache)>>

\* v is a tuple of one value per reported subset, in the order of the subsets:
\* for a family, the family's mapping of the aggregator's value
ShapedEntry(section, v) ==
    IF families(section) = <<>>
    THEN /\ v.py = "tuple"
         /\ Len(v.items) = IF compare_mode = DUAL THEN 3 ELSE 2
         /\ \A k \in DOMAIN v.items :
               v.items[k] = aggregate(cache, section, ReportedSubsets[k])
    ELSE /\ v.py = "dict"
         /\ Keys(v) = families(section)
         /\ \A j \in DOMAIN families(section) :
               LET t == Lookup(v, families(section)[j])
               IN  /\ t.py = "tuple"
                   /\ Len(t.items) = IF compare_mode = DUAL THEN 3 ELSE 2
                   /\ \A k \in DOMAIN t.items :
                         t.items[k] =
                            Lookup(aggregate(cache, section, ReportedSubsets[k]),
                                   families(section)[j])

\* C16: after a run whose loop went through every selected section, the keys
\* of results are exactly the internal identifiers of the selected sections
\* (in a run ended by an exception, those of the sections stored before it);
\* every entry, or every family of an entry for transport, information
\* source, seafood and sushi, is a tuple of 2 values in single-region mode and
\* of 3 in two-region mode: the statistics of the first region, of the second
\* region in two-region mode, and of the reference population last.
C16_ShapeOfResults ==
    Ran =>
        /\ Len(results.items) <= Len(selected_sections)
        /\ Keys(results) = StoredIds(Len(results.items))
        /\ outcome = "ok" => Len(results.items) = Len(selected_sections)
        /\ \A i \in DOMAIN results.items :
              ShapedEntry(selected_sections[i], results.items[i][2])

C16_Witness ==
    /\ compare_mode = DUAL
    /\ outcome = "ok"
    /\ selected_sections = <<"Basic", "Travel", "Transport", "Purpose", "InfoSource">>
    /\ Len(results.items) = 5
    /\ Len(cache.rows) = 2

-----------------------------------------------------------------------------
(* C17: region resolution without the override (SpecRegion) *)

Unrecognized == "unrecognized"

\* the label of a row the override leaves alone: the table entry of its
\* numeric home code, Fukui for the prefecture given by name, else none
LabelWithoutOverride(row) ==
    IF to_numeric(row.home) \in DOMAIN TARGET_REGIONS
    THEN TARGET_REGIONS[to_numeric(row.home)]
    ELSE IF row.home = "Fukui" THEN "Fukui" ELSE Unrecognized

\* the rows of the loaded table that resolve to a region
Recognized ==
    {i \in DOMAIN cache.rows :
        \/ Overridden(cache.rows[i])
        \/ LabelWithoutOverride(cache.rows[i]) # Unrecognized}

\* C17: a row of the loaded table that the area-4 override does not hit is in
\* the subset of the region that the table gives for its numeric home code,
\* in the subset of Fukui when its home value is the name of that prefecture,
\* and in the subset of no other region; when neither applies it is in no
\* per-region subset and not in the reference population.  A run reports on
\* it accordingly, and the sample count of the reference population counts
\* the recognized rows only.
C17_ResolutionWithoutOverride ==
    cache.loaded =>
        /\ \A i \in DOMAIN cache.rows :
              LET row == cache.rows[i]
              IN  ~Overridden(row) =>
                    /\ \A r \in RegionNames :
                          Occurrences(get_region_data(cache, r), row) > 0
                              <=> r = LabelWithoutOverride(row)
                    /\ Occurrences(get_all_target_data(cache), row) > 0
                          <=> LabelWithoutOverride(row) # Unrecognized
                    /\ Ran =>
                          /\ Occurrences(RunSubsets[1], row) > 0
                                <=> selected_region = LabelWithoutOverride(row)
                          /\ Occurrences(RunSubsets[2], row) > 0
                                <=> LabelWithoutOverride(row) # Unrecognized
        /\ Len(get_all_target_data(cache)) = Cardinality(Recognized)
        /\ (outcome = "ok" /\ Recognized # {}) =>
              Lookup(StoredStats("basic")[2], "sample_count")
                  = PyInt(Cardinality(Recognized))

\* a Fukui report over a table with one row whose home is the name of the
\* prefecture and one row whose home code has no table entry: the report and
\* the reference population hold the first row only
C17_Witness ==
    /\ outcome = "ok"
    /\ selected_region = "Fukui"
    /\ Len(cache.rows) = 2
    /\ cache.rows[1].home = "Fukui" /\ cache.rows[1].area = 3
    /\ cache.rows[2].home = "5" /\ cache.rows[2].area = 3
    /\ Len(RunSubsets[1]) = 1
    /\ Lookup(StoredStats("basic")[2], "sample_count") = PyInt(1)

-----------------------------------------------------------------------------
(* SpecVisits: sheets whose rows differ in the number of visits to the
   prefecture (来県回数) *)

VisitsRows == {[SampleRow EXCEPT !.visits = v] : v \in {0, 1, 2, 5, 6}}

VisitsSheets == Sheets(VisitsRows, MaxRowsVisits)

VisitsRegions == Regions({"Toyama", "Tokyo"})

VisitsChecked == {<<{"Travel"}, FALSE>>}

NextVisits ==
    \E raw \in Fetched(VisitsSheets), w \in VisitsRegions, c \in VisitsChecked :
        main(raw, w[1], w[2], w[3], c[1], c[2])

SpecVisits == Init /\ [][NextVisits]_vars

\* the rows of a subset with exactly, and with at least, v visits
VisitedExactly(data, v) == {i \in DOMAIN data : data[i].visits = v}

VisitedAtLeast(data, v) == {i \in DOMAIN data : data[i].visits >= v}

\* the visits of a subset, row by row
Visits(data) == [i \in DOMAIN data |-> data[i].visits]

\* C19: for every non-empty subset of a run the stored first-visit rate is
\* the share of rows with exactly 1 visit, the repeater rate the share of
\* rows with 2 visits or more, the heavy-repeater rate the share of rows with
\* 6 visits or more, each to one decimal; so the heavy-repeater rate is at
\* most the repeater rate, and the first-visit rate and the repeater rate add
\* up to at most 100, up to the rounding of each to one decimal.
C19_VisitThresholds ==
    (Ran /\ HasKey(results, "travel")) =>
        \A k \in DOMAIN StoredStats("travel") :
            RunSubsets[k] # <<>> =>
                LET data == RunSubsets[k]
                    first == Lookup(StoredStats("travel")[k],
                                    "first_visit_rate(%)").tenths
                    repeater == Lookup(StoredStats("travel")[k],
                                       "repeater_rate(%)").tenths
                    heavy == Lookup(StoredStats("travel")[k],
                                    "heavy_repeater_rate(%)").tenths
                IN  /\ NearestTenth(first,
                          100 * Cardinality(VisitedExactly(data, 1)), Len(data))
                    /\ NearestTenth(repeater,
                          100 * Cardinality(VisitedAtLeast(data, 2)), Len(data))
                    /\ NearestTenth(heavy,
                          100 * Cardinality(VisitedAtLeast(data, 6)), Len(data))
                    /\ heavy <= repeater
                    /\ first + repeater <= 1001
                    /\ Visits(data) = <<1, 2, 6>> =>
                          first = 333 /\ repeater = 667 /\ heavy = 333

\* the report of a region whose rows have 1, 2 and 6 visits
C19_Witness ==
    /\ outcome = "ok"
    /\ Visits(RunSubsets[1]) = <<1, 2, 6>>
    /\ Lookup(StoredStats("travel")[1], "repeater_rate(%)") = PyFloat(667)
    /\ Lookup(StoredStats("travel")[1], "heavy_repeater_rate(%)") = PyFloat(333)

-----------------------------------------------------------------------------
(* SpecMissing: sheets whose rows have every value, or lack the value of one
   numeric column: a spend category, a satisfaction score, NPS, age, or the
   party type *)

MissingRows ==
    {SampleRow,
     [SampleRow EXCEPT !.exp = [@ EXCEPT !["food"] = NaN]],
     [SampleRow EXCEPT !.sat = [@ EXCEPT !["food"] = NaN]],
     [SampleRow EXCEPT !.nps = NaN],
     [SampleRow EXCEPT !.age = NaN],
     [SampleRow EXCEPT !.companion = NaN]}

MissingSheets == Sheets(MissingRows, MaxRowsMissing)

MissingRegions == Regions({"Toyama"})

MissingChecked ==
    {<<{"Basic"}, FALSE>>, <<{"Expense"}, FALSE>>, <<{"SatisfactionNPS"}, FALSE>>}

NextMissing ==
    \E raw \in Fetched(MissingSheets), w \in MissingRegions, c \in MissingChecked :
        main(raw, w[1], w[2], w[3], c[1], c[2])

SpecMissing == Init /\ [][NextMissing]_vars

\* C18 (as claimed): whenever a run calls an aggregator on a subset with at
\* least one row, also one in which a numeric column has no value in any
\* row, the call returns a mapping with entries and does not raise, and the
\* run stores the section.  calc_expense_stats raises ValueError when a spend
\* category has no value in any row of the subset.
C18_AggregatorsTotal ==
    Ran =>
        \A i \in DOMAIN selected_sections :
            (Called(i) /\ \A k \in DOMAIN RunSubsets : RunSubsets[k] # <<>>) =>
                /\ \A k \in DOMAIN RunSubsets :
                      LET v == aggregate(cache, selected_sections[i], RunSubsets[k])
                      IN  v.py = "dict" /\ v.items # <<>>
                /\ outcome = "ok"
                /\ HasKey(results, REPORT_SECTIONS[selected_sections[i]])

-----------------------------------------------------------------------------
(* SpecSushi: sheets whose rows differ in the venue codes of sushi and of
   masuzushi (訪問した寿司店形態, 訪問したます寿し店形態); a row may have no answer *)

SushiRows ==
    {[SampleRow EXCEPT !.sushi = a, !.masuzushi = b] :
        a \in {NaN, 0, 1, 6}, b \in {NaN, 0, 2, 7}}

SushiSheets == Sheets(SushiRows, MaxRowsSushi)

SushiRegions == Regions({"Toyama"})

SushiChecked == {<<{"Sushi"}, FALSE>>}

NextSushi ==
    \E raw \in Fetched(SushiSheets), w \in SushiRegions, c \in SushiChecked :
        main(raw, w[1], w[2], w[3], c[1], c[2])

SpecSushi == Init /\ [][NextSushi]_vars

\* the venue codes of a code table: every code but 0, 'did not eat'
VenueCodes(type_map) == {type_map[i][1] : i \in DOMAIN type_map} \ {0}

\* the name of a code in a code table
VenueName(type_map, code) ==
    type_map[CHOOSE i \in DOMAIN type_map : type_map[i][1] = code][2]

\* the rows of a subset that report the code for the dish
Reporting(data, dish, code) ==
    {i \in DOMAIN data : (IF dish = "sushi" THEN data[i].sushi
                          ELSE data[i].masuzushi) = code}

\* the rows of a subset that report a code other than 'did not eat'
Eaters(data, dish, type_map) ==
    UNION {Reporting(data, dish, c) : c \in VenueCodes(type_map)}

\* the statistics stored for one dish are as claimed
DishAsClaimed(data, dish, type_map, d) ==
    /\ Len(d.items) = 1 + Cardinality(VenueCodes(type_map))
    /\ NearestTenth(Lookup(d, "eaten_rate").tenths,
                    100 * Cardinality(Eaters(data, dish, type_map)), Len(data))
    /\ \A c \in VenueCodes(type_map) :
          NearestTenth(Lookup(d, VenueName(type_map, c)).tenths,
                       100 * Cardinality(Reporting(data, dish, c)), Len(data))

\* C21 (as claimed): for every non-empty subset of a run and each of the two
\* dishes, the stored overall rate is the share of rows that report a venue
\* code other than 0, which is the sum of the shares of the venue codes, and
\* the entry of each venue code of the dish's own table (6 for sushi, 7 for
\* masuzushi) is the share of rows reporting exactly that code, each to one
\* decimal.  The code counts a row without an answer as having eaten:
\* (column != 0) is true of NaN.
C21_SushiRates ==
    (Ran /\ HasKey(results, "sushi")) =>
        \A k \in DOMAIN RunSubsets :
            RunSubsets[k] # <<>> =>
                /\ DishAsClaimed(RunSubsets[k], "sushi", SUSHI_TYPE_MAP,
                                 StoredFamily("sushi", "sushi")[k])
                /\ DishAsClaimed(RunSubsets[k], "masuzushi", MASUZUSHI_TYPE_MAP,
                                 StoredFamily("sushi", "masuzushi")[k])

-----------------------------------------------------------------------------
(* SpecExpense: sheets whose rows differ in the amounts spent on food and on
   lodging (消費額（飲食）, 消費額（宿泊）); a row may have no amount for food *)

ExpenseRows ==
    {[SampleRow EXCEPT !.exp = [@ EXCEPT !["food"] = f, !["lodging"] = l]] :
        f \in {NaN, 0, 1001, 996500}, l \in {1000, 4000}}

ExpenseSheets == Sheets(ExpenseRows, MaxRowsExpense)

ExpenseRegions == Regions({"Toyama"})

ExpenseChecked == {<<{"Expense"}, FALSE>>}

NextExpense ==
    \E raw \in Fetched(ExpenseSheets), w \in ExpenseRegions, c \in ExpenseChecked :
        main(raw, w[1], w[2], w[3], c[1], c[2])

SpecExpense == Init /\ [][NextExpense]_vars

\* the amounts of a row that are there, one per category
Amounts(row) ==
    {<<c, row.exp[c]>> : c \in {x \in DOMAIN row.exp : row.exp[x] # NaN}}

\* the sum of the second components of a set of pairs
RECURSIVE SumOfPairs(_)
SumOfPairs(S) ==
    IF S = {} THEN 0
    ELSE LET p == CHOOSE p \in S : TRUE IN p[2] + SumOfPairs(S \ {p})

\* total spend of each row: the sum of its five categories
Totals(data) == [i \in DOMAIN data |-> SumOfPairs(Amounts(data[i]))]

\* the value at rank r of a sequence of numbers, counting from the smallest
AtRank(t, r) ==
    CHOOSE v \in {t[i] : i \in DOMAIN t} :
        /\ Cardinality({i \in DOMAIN t : t[i] < v}) < r
        /\ Cardinality({i \in DOMAIN t : t[i] <= v}) >= r

\* twice the median: the middle value, or the average of the two middle values
TwiceMedian(t) ==
    IF Len(t) % 2 = 1 THEN 2 * AtRank(t, (Len(t) + 1) \div 2)
    ELSE AtRank(t, Len(t) \div 2) + AtRank(t, Len(t) \div 2 + 1)

\* an integer amount with thousands separators and the currency suffix
RECURSIVE Grouped(_)
Grouped(v) ==
    IF v < 1000 THEN ToString(v)
    ELSE Grouped(v \div 1000) \o ","
         \o (IF v % 1000 < 10 THEN "00" ELSE IF v % 1000 < 100 THEN "0" ELSE "")
         \o ToString(v % 1000)

Yen(v) == PyStr(Grouped(v) \o "yen")

\* the amounts of one category in a subset, row by row, where there is one
CategoryAmounts(data, c) ==
    {<<i, data[i].exp[c]>> : i \in {j \in DOMAIN data : data[j].exp[c] # NaN}}

\* the mapping calc_expense_stats is to return for a subset, entry by entry
ExpenseAsClaimed(data, d) ==
    /\ d.py = "dict"
    /\ Len(d.items) = 2 + Len(expense_cols)
    /\ Lookup(d, "total_spend(mean)")
          = Yen(SumSeq(Totals(data)) \div Len(data))
    /\ Lookup(d, "total_spend(median)") = Yen(TwiceMedian(Totals(data)) \div 2)
    /\ \A i \in DOMAIN expense_cols :
          LET amounts == CategoryAmounts(data, expense_cols[i])
          IN  /\ amounts # {}
              /\ Lookup(d, expense_cols[i] \o "(mean)")
                    = Yen(SumOfPairs(amounts) \div Cardinality(amounts))

\* the totals 5,001, 4,000 and 1,000,500 have the mean 336,500 and the
\* median 5,001; the totals 4,000 and 5,001 have the median 4,500
ExpenseExamples(data, d) ==
    /\ Totals(data) = <<5001, 4000, 1000500>> =>
          /\ Lookup(d, "total_spend(mean)") = PyStr("336,500yen")
          /\ Lookup(d, "total_spend(median)") = PyStr("5,001yen")
    /\ Totals(data) = <<4000, 5001>> =>
          Lookup(d, "total_spend(median)") = PyStr("4,500yen")

\* C22 (as claimed): for every non-empty subset of a run calc_expense_stats
\* returns the mean and the median of the row totals (each the sum of the
\* five categories) and the mean of each category, as integers with
\* thousands separators and the currency suffix; the median is the middle
\* total for an odd number of rows and the average of the two middle totals
\* for an even number.
C22_ExpenseStats ==
    (Ran /\ selected_sections = <<"Expense">>) =>
        \A k \in DOMAIN RunSubsets :
            RunSubsets[k] # <<>> =>
                /\ ExpenseAsClaimed(RunSubsets[k],
                       aggregate(cache, "Expense", RunSubsets[k]))
                /\ ExpenseExamples(RunSubsets[k],
                       aggregate(cache, "Expense", RunSubsets[k]))

-----------------------------------------------------------------------------
(* SpecSchema: sheets that differ in their transport columns, the columns
   whose names start with 1次交通_ or 県内交通_: the columns of SheetColumns,
   with a column added to either family or to both, and rows that differ in
   the transport indicators *)

\* 1次交通_フェリー 県内交通_路面電車
AddedColumns ==
    {<<>>, << <<"transport1_", "ferry">> >>, << <<"transport2_", "tram">> >>,
     << <<"transport1_", "ferry">>, <<"transport2_", "tram">> >>,
     << <<"transport2_", "tram">>, <<"transport1_", "ferry">> >>}

\* the indicators in which the rows of a sheet differ
VariedColumns(added) ==
    {<<"transport1_", "car">>, <<"transport2_", "bus">>}
    \cup {added[i] : i \in DOMAIN added}

SchemaRows(added) ==
    {[SampleRow EXCEPT !.ind = [c \in ColumnSet \cup {added[i] : i \in DOMAIN added}
                                   |-> IF c \in VariedColumns(added) THEN bits[c]
                                       ELSE SampleRow.ind[c]]] :
        bits \in [VariedColumns(added) -> {0, 1}]}

SchemaSheets ==
    UNION {{[columns |-> SheetColumns \o added, rows |-> rows] :
               rows \in UNION {[1..k -> SchemaRows(added)] : k \in 0..MaxRowsSchema}} :
           added \in AddedColumns}

SchemaRegions == Regions({"Toyama"})

SchemaChecked == {<<{"Transport"}, FALSE>>}

NextSchema ==
    \E raw \in Fetched(SchemaSheets), w \in SchemaRegions, c \in SchemaChecked :
        main(raw, w[1], w[2], w[3], c[1], c[2])

SpecSchema == Init /\ [][NextSchema]_vars

\* the places in the loaded table of the columns that start with the prefix
PlacesOf(prefix) == {n \in DOMAIN cache.columns : cache.columns[n][1] = prefix}

\* the rows of a subset that have the indicator of a column set
WithIndicator(data, col) == {i \in DOMAIN data : data[i].ind[col] = 1}

\* a family mapping has one key per column of the table with the prefix, the
\* name of the column without the prefix, in the order of the columns, and
\* its value is the share of the rows of the subset with the indicator set
FamilyOfSchema(data, prefix, d) ==
    /\ Len(d.items) = Cardinality(PlacesOf(prefix))
    /\ \A n \in PlacesOf(prefix) :
          LET at == Cardinality({m \in PlacesOf(prefix) : m <= n})
          IN  /\ d.items[at][1] = cache.columns[n][2]
              /\ NearestTenth(d.items[at][2].tenths,
                     100 * Cardinality(WithIndicator(data, cache.columns[n])),
                     Len(data))

\* C23: for every non-empty subset of a run the two family mappings of
\* calc_transport_stats have exactly one key for each column of the loaded
\* table that starts with the prefix of the family, the column name without
\* the prefix, also for a column added to the table; each value is the
\* percentage of the rows of the subset with that indicator set.
C23_SchemaDrivenFamilies ==
    (Ran /\ HasKey(results, "transport")) =>
        \A k \in DOMAIN RunSubsets :
            RunSubsets[k] # <<>> =>
                /\ FamilyOfSchema(RunSubsets[k], "transport1_",
                                  StoredFamily("transport", "primary")[k])
                /\ FamilyOfSchema(RunSubsets[k], "transport2_",
                                  StoredFamily("transport", "in_pref")[k])

\* a table with the added columns 県内交通_路面電車 and 1次交通_フェリー, in this
\* order, and two rows of which one came by ferry: the primary family has
\* the three keys car, shinkansen, ferry and ferry is 50.0
C23_Witness ==
    /\ outcome = "ok"
    /\ Len(cache.columns) = Len(SheetColumns) + 2
    /\ cache.columns[Len(SheetColumns) + 1] = <<"transport2_", "tram">>
    /\ Len(RunSubsets[1]) = 2
    /\ Keys(StoredFamily("transport", "primary")[1]) = <<"car", "shinkansen", "ferry">>
    /\ Lookup(StoredFamily("transport", "primary")[1], "ferry") = PyFloat(500)
    /\ Keys(StoredFamily("transport", "in_pref")[1]) = <<"bus", "rental_car", "tram">>

-----------------------------------------------------------------------------
(* SpecReload: the sheet at the URL may hold other rows at every run *)

ReloadRows ==
    {SampleRow, [SampleRow EXCEPT !.home = "2", !.area = 4]}

ReloadSheets == Sheets(ReloadRows, MaxRowsReload)

ReloadRegions == Regions({"Toyama", "Fukui"})

ReloadChecked == {<<{"Basic"}, FALSE>>, <<{"Travel"}, FALSE>>, <<{}, TRUE>>}

NextReload ==
    \E raw \in ReloadSheets, w \in ReloadRegions, c \in ReloadChecked :
        main(raw, w[1], w[2], w[3], c[1], c[2])

SpecReload == Init /\ [][NextReload]_vars

\* the table of a run is the region-corrected sheet: load_data of some sheet
RegionCorrected(df) ==
    /\ df.loaded
    /\ \A i \in DOMAIN df.rows :
          df.rows[i].code = resolve_code(df.rows[i].home, df.rows[i].area)

\* what a run stores for its sections when it reports on the table df
ReportOn(df) ==
    assemble(df, compare_mode, selected_sections,
             extract(df, compare_mode, selected_region, selected_region2),
             EmptyDict).results

\* C24: over every sequence of runs the table is fetched and region-corrected
\* by the first run only: every run leaves the table in the memo, a run that
\* finds the table there leaves it as it is, whatever the sheet holds by then,
\* and reports on that table.
C24_LoadOnce ==
    /\ [][/\ RegionCorrected(cache')
          /\ cache.loaded => cache' = cache
          /\ ~cache.loaded => cache' = load_data(sheet')]_vars
    /\ [](Ran => results = ReportOn(cache))

\* a run that found the table in the memo and reported on it while the sheet
\* at the URL held no row: the Fukui report of a table of two rows, one of
\* them moved to Fukui by the override
C24_Witness ==
    /\ sheet.rows = <<>>
    /\ outcome = "ok"
    /\ selected_region = "Fukui"
    /\ Len(cache.rows) = 2
    /\ cache.rows[1].code = 1 /\ cache.rows[2].code = 14
    /\ Lookup(StoredStats("basic")[1], "sample_count") = PyInt(1)

-----------------------------------------------------------------------------
(* C25: the cached table is read-only (SpecRegion) *)

\* a table without the column 居住地名, in its columns and in its rows
Unlabelled(df) ==
    /\ \A i \in DOMAIN df.columns : df.columns[i] # REGION_NAME_COLUMN
    /\ \A i \in DOMAIN df.rows : "region_name" \notin DOMAIN df.rows[i]

\* C25: the table main holds at the end of a run is the cached table as
\* load_data returned it, with the same columns, rows and values, and without
\* the column 居住地名: get_region_data and get_all_target_data attach the
\* region label to a copy, so the rows of the subsets of a run carry the
\* label and the rows of the cached table do not.
C25_CachedTableReadOnly ==
    cache.loaded =>
        /\ main_df = cache
        /\ Unlabelled(cache)
        /\ cache.columns = SheetColumns
        /\ \A i \in DOMAIN cache.rows :
              cache.rows[i].code
                 = resolve_code(cache.rows[i].home, cache.rows[i].area)
        /\ Ran => \A k \in DOMAIN RunSubsets : \A i \in DOMAIN RunSubsets[k] :
                     /\ RunSubsets[k][i].region_name \in RegionNames
                     /\ \E j \in DOMAIN cache.rows :
                           RunSubsets[k][i]
                              = ("region_name" :> RunSubsets[k][i].region_name)
                                   @@ cache.rows[j]

\* a Tokyo report over a table of two rows, one of Tokyo: the row of the
\* subset carries the label, the cached table does not
C25_Witness ==
    /\ outcome = "ok"
    /\ selected_region = "Tokyo"
    /\ Len(cache.rows) = 2
    /\ Len(RunSubsets[1]) = 1
    /\ RunSubsets[1][1].region_name = "Tokyo"
    /\ main_df = cache

-----------------------------------------------------------------------------
(* SpecTables: sheets with more columns of a family than its table has rows
   (11 for a ranking of ten, 9 for a table of eight), of respondents of Toyama
   and of Tokyo who differ in the first two indicators of every family *)

\* n more columns of a family
MoreColumns(prefix, n) == [i \in 1..n |-> <<prefix, "item" \o ToString(i)>>]

\* the columns a sheet has beyond SheetColumns
TablesLayouts ==
    {MoreColumns("purpose_", 8) \o MoreColumns("transport1_", 7)
        \o MoreColumns("info_digital_", 7),
     MoreColumns("visited_", 8) \o MoreColumns("transport2_", 7)
        \o MoreColumns("info_nondigital_", 7)}

\* the first and the second column of every family of SheetColumns
FirstColumns ==
    {<<"transport1_", "car">>, <<"transport2_", "bus">>, <<"purpose_", "onsen">>,
     <<"info_digital_", "sns">>, <<"info_nondigital_", "magazine">>,
     <<"visited_", "kurobe">>}

SecondColumns ==
    {<<"transport1_", "shinkansen">>, <<"transport2_", "rental_car">>,
     <<"purpose_", "gourmet">>, <<"info_digital_", "web">>,
     <<"info_nondigital_", "word_of_mouth">>, <<"visited_", "tateyama">>}

TablesRows(added) ==
    {[SampleRow EXCEPT
        !.home = h,
        !.ind = [c \in ColumnSet \cup {added[i] : i \in DOMAIN added} |->
                    IF c \in FirstColumns THEN a
                    ELSE IF c \in SecondColumns THEN b
                    ELSE IF c \in ColumnSet THEN SampleRow.ind[c] ELSE 1]] :
        h \in {"1", "2"}, a \in {0, 1}, b \in {0, 1}}

TablesSheets ==
    UNION {{[columns |-> SheetColumns \o added, rows |-> rows] :
               rows \in UNION {[1..k -> TablesRows(added)] : k \in 0..MaxRowsTables}} :
           added \in TablesLayouts}

TablesRegions == {<<SINGLE, "Toyama", None>>, <<DUAL, "Toyama", "Tokyo">>}

TablesChecked == {<<{"Purpose", "Visited"}, FALSE>>, <<{"Transport", "InfoSource"}, FALSE>>}

NextTables ==
    \E raw \in Fetched(TablesSheets), w \in TablesRegions, c \in TablesChecked :
        main(raw, w[1], w[2], w[3], c[1], c[2])

SpecTables == Init /\ [][NextTables]_vars

\* the most rows the table of a section has; 0 for a table without a limit
RowLimit(section) ==
    IF section \in {"Purpose", "Visited"} THEN 10
    ELSE IF section \in {"Transport", "InfoSource"} THEN 8
    ELSE 0

\* the mapping whose ranking a table shows: region 1's, and in a two-region
\* report region 2's when region 1 has none
RankingOf(stats) ==
    IF compare_mode = DUAL /\ ~Truthy(stats[1]) THEN stats[2] ELSE stats[1]

\* the smaller of two numbers
Min(a, b) == IF a < b THEN a ELSE b

\* the rows of a table are numbered 1, 2, .., k
Numbered(rows) == \A i \in DOMAIN rows : rows[i][1] = ToString(i)

\* the rows of a table are the top of the ranking d: as many as the limit
\* allows, from the largest rate down, and no key left out has a larger rate
\* than a key shown
TopOfRanking(rows, d, limit) ==
    /\ Len(rows) = Min(limit, Len(d.items))
    /\ \A i \in DOMAIN rows : HasKey(d, rows[i][2])
    /\ \A i, j \in DOMAIN rows : i # j => rows[i][2] # rows[j][2]
    /\ \A i, j \in DOMAIN rows :
          i < j => Lookup(d, rows[i][2]).tenths >= Lookup(d, rows[j][2]).tenths
    /\ \A i \in DOMAIN rows : \A m \in DOMAIN d.items :
          (\A j \in DOMAIN rows : rows[j][2] # d.items[m][1])
             => d.items[m][2].tenths <= Lookup(d, rows[i][2]).tenths

\* every table of the blocks is numbered and, where its section has a limit,
\* is the top of the ranking behind it
TablesWithinLimits(blocks) ==
    \A b \in DOMAIN blocks : \A t \in DOMAIN blocks[b].tables :
        LET table == blocks[b].tables[t]
            section == blocks[b].title
            d == RankingOf(stats_behind(Lookup(results, REPORT_SECTIONS[section]),
                                        table.family))
        IN  /\ Numbered(table.rows)
            /\ RowLimit(section) > 0 =>
                  /\ Len(table.rows) <= RowLimit(section)
                  /\ TopOfRanking(table.rows, d, RowLimit(section))

\* C26: in every table of the page and of the PDF the 'No' column is
\* 1, 2, .., k; a table of visit purposes or visited sites has at most 10
\* rows, a transport or information-source table at most 8, and its rows are
\* the top of the ranking.
C26_RowNumbersAndLimits ==
    /\ TablesWithinLimits(screen)
    /\ TablesWithinLimits(pdf.blocks)

\* a report of Toyama whose sheet has 11 visit purposes and 9 transport
\* columns: the purpose table has ten rows without onsen, whose rate is the
\* smallest
C26_Witness ==
    /\ outcome = "ok"
    /\ compare_mode = SINGLE
    /\ Len(screen) = 2
    /\ screen[1].title = "Purpose"
    /\ Len(StoredStats("purpose")[1].items) = 11
    /\ Len(screen[1].tables[1].rows) = 10
    /\ \A i \in 1..10 : screen[1].tables[1].rows[i][2] # "onsen"
    /\ screen[1].tables[1].rows[10][1] = "10"
    /\ pdf.exported /\ Len(pdf.blocks[1].tables[1].rows) = 10

-----------------------------------------------------------------------------
(* C27: the rows of a two-region ranking table (SpecTables) *)

\* the text of d.get(key, '-') for a mapping of rates
RateText(d, key) == IF HasKey(d, key) THEN Fmt1(Lookup(d, key).tenths) ELSE "-"

\* the rows of a two-region ranking table over stats = (stats1, stats2, all):
\* the first ten keys of stats1 in its order, of stats2 when stats1 is empty,
\* each with the three values looked up by the key
RowsFromRegionOne(rows, stats) ==
    LET base == IF stats[1].items # <<>> THEN stats[1] ELSE stats[2]
    IN  /\ Len(rows) = Min(10, Len(base.items))
        /\ \A i \in DOMAIN rows :
              /\ rows[i][2] = base.items[i][1]
              /\ \A k \in 1..3 : rows[i][2 + k] = RateText(stats[k], rows[i][2])

\* C27: in a two-region report the table of visit purposes and the table of
\* visited sites, on the page and in the PDF, have as row keys the first ten
\* keys of region 1's mapping in its order, and the values of region 1,
\* region 2 and the reference population under those keys; region 2's order
\* is used only when region 1's mapping is empty (and the page shows no table
\* when both are empty).
C27_DualRankingFromRegionOne ==
    compare_mode = DUAL =>
        /\ \A b \in DOMAIN screen :
              screen[b].title \in {"Purpose", "Visited"} =>
                 LET stats == StoredStats(REPORT_SECTIONS[screen[b].title])
                 IN  IF stats[1].items = <<>> /\ stats[2].items = <<>>
                     THEN screen[b].tables = <<>>
                     ELSE /\ Len(screen[b].tables) = 1
                          /\ RowsFromRegionOne(screen[b].tables[1].rows, stats)
        /\ \A b \in DOMAIN pdf.blocks :
              pdf.blocks[b].title \in {"Purpose", "Visited"} =>
                 /\ Len(pdf.blocks[b].tables) = 1
                 /\ RowsFromRegionOne(pdf.blocks[b].tables[1].rows,
                        StoredStats(REPORT_SECTIONS[pdf.blocks[b].title]))

\* a report of Toyama and Tokyo over 11 visit purposes whose rankings differ
\* in their first key: the table starts with the first key of Toyama
C27_Witness ==
    /\ outcome = "ok"
    /\ compare_mode = DUAL
    /\ screen[1].title = "Purpose"
    /\ Len(StoredStats("purpose")[1].items) = 11
    /\ Len(StoredStats("purpose")[2].items) = 11
    /\ StoredStats("purpose")[1].items[1][1] # StoredStats("purpose")[2].items[1][1]
    /\ screen[1].tables[1].rows[1][2] = StoredStats("purpose")[1].items[1][1]
    /\ pdf.blocks[1].tables[1].rows[1][2] = StoredStats("purpose")[1].items[1][1]

-----------------------------------------------------------------------------
(* SpecWidgets: every value of the radio button and of the two select boxes;
   a select box returns one of its options, so a value that is not an option
   of its box is no run *)

WidgetsRegions ==
    {SINGLE, DUAL} \X (RegionNames \cup {None}) \X (RegionNames \cup {None})

WidgetsChecked == {<<{"Basic"}, FALSE>>, <<{"Purpose"}, FALSE>>}

NextWidgets ==
    \E raw \in Fetched(AssemblySheets), w \in WidgetsRegions, c \in WidgetsChecked :
        main(raw, w[1], w[2], w[3], c[1], c[2])

SpecWidgets == Init /\ [][NextWidgets]_vars

\* C28: in a two-region run the two regions are distinct members of
\* REGION_ORDER, and no row of the first region's subset has the label of a
\* row of the second region's subset; in a single-region run the region is a
\* member of REGION_ORDER and the second region is None.
C28_DistinctRegions ==
    /\ compare_mode = DUAL =>
          /\ selected_region \in RegionNames
          /\ selected_region2 \in RegionNames
          /\ selected_region2 # selected_region
          /\ Ran => \A i \in DOMAIN RunSubsets[1] : \A j \in DOMAIN RunSubsets[2] :
                       RunSubsets[1][i].region_name # RunSubsets[2][j].region_name
    /\ compare_mode = SINGLE =>
          /\ selected_region \in RegionNames
          /\ selected_region2 = None
          /\ Ran => Len(RunSubsets) = 2

\* a report of Tokyo and Toyama over a sheet with a row of each
C28_Witness ==
    /\ outcome = "ok"
    /\ compare_mode = DUAL
    /\ selected_region = "Tokyo" /\ selected_region2 = "Toyama"
    /\ Len(RunSubsets[1]) = 1 /\ Len(RunSubsets[2]) = 1
    /\ Len(StoredStats("basic")) = 3

====
